---- MODULE Spec2Model ----
(***************************************************************************)
(* A model of persisto: the remote-object VFS (sector cache, dirty set,    *)
(* whole-object writeback, emulated locks), the local VFS locks, the       *)
(* database registry, the stage manager and the query handler.             *)
(*                                                                         *)
(* Each subsystem has its own specification over the same variables:       *)
(*   SpecRVFS       one r2File handle doing I/O against one remote object  *)
(*   SpecCache      the sector cache of a handle that never syncs          *)
(*   SpecLock       the emulated locks of the two VFSs                     *)
(*   SpecStages     one database, its requests, goroutines and monitor     *)
(*   SpecRegistry   the startup listing and concurrent create requests     *)
(*   SpecQuery      one run of the database-query handler                  *)
(*   SpecPromotion  requests and promotion goroutines, fairly scheduled    *)
(*   SpecDemotion   the monitor from its start, and the demotions it starts *)
(*   SpecMove       a promotion step by step, seen without the lock        *)
(*   SpecSync       any statement through Query and Execute, unknown names *)
(*   SpecText       utils.IsWriteOperation on one query string             *)
(*   SpecSector     ReadAt and Truncate on one handle, each call kept      *)
(*   SpecEvict      getSector call by call on every cache of a handle      *)
(*   SpecEngine     the locks of either VFS as the engine drives them      *)
(*   SpecRace       Execute beside the goroutines that move the record     *)
(*   SpecWriteback  a write followed through Syncs and cache misses        *)
(*   SpecClose      a handle opened, locked, written to and closed         *)
(*   SpecWrite      WriteAt and Sync on one handle, each WriteAt kept      *)
(*   SpecUpper      the syncs that writes start, auto-sync on or off       *)
(*   SpecMutex      the functions that take a record's mutex, fairly run   *)
(*   SpecBurst      requests in a row and the promotions they start        *)
(*   SpecPeers      two r2File handles on one key                          *)
(*   SpecRetry      SpecEngine with every started Lock running on          *)
(*   SpecAlone      one handle alone on its file, any Lock and Unlock      *)
(***************************************************************************)
EXTENDS Integers, Sequences, FiniteSets, TLC

VARIABLES
    obj,      \* the remote object under the handle's key: [exists, data]
    f,        \* the r2File handle
    span,     \* the sectors the engine addresses in this run: 0 .. span-1
    last,     \* what the last call was given and what it returned
    tracked,  \* a successful WriteAt followed so far in the run, or NoWrite
    peer,     \* a second r2File opened on the handle's key
    disk,     \* the diskFile handles on one path, and where each call stands
    fileLocks,   \* the path's entry of the localvfs fileLocks map, or NoEntry
    lockStates,  \* the fileLockState each entry points at
    build,    \* which build of the stage manager runs
    rec,      \* the Database records ever made, by identity
    dbs,      \* Dbs.Items: the records the registry lists, in order
    store,    \* the database file of each name at each stage
    tasks,    \* the goroutines started and not yet run, per record and kind
    calls,    \* the Query and Execute calls between handleAccess and return
    creating, \* the create requests between FindByName and the append
    handler,  \* one run of the database-query handler and its workers
    monitor,  \* the stage monitor's goroutine: its timeout, ticker and state
    moving,   \* the MoveToStage call that has started and not returned
    text      \* a query string handed to utils.IsWriteOperation, and the answer

vars == <<obj, f, span, last, tracked, peer, disk, fileLocks, lockStates,
          build, rec, dbs, store, tasks, calls, creating, handler, monitor, moving, text>>
rvfsVars == <<obj, f, span, tracked, peer>>
diskVars == <<disk, fileLocks, lockStates>>
stageVars == <<build, rec, dbs, store, tasks, calls, creating>>
\* what the methods of r2File leave alone
notRVFS == <<diskVars, stageVars, handler, monitor, moving, text>>
\* what the methods of diskFile leave alone
notDisk == <<rvfsVars, stageVars, handler, monitor, moving, text>>
\* what the registry and the stage manager leave alone
notStages == <<rvfsVars, diskVars, handler, monitor, moving, text>>
\* what the database-query handler leaves alone
notHandler == <<rvfsVars, diskVars, build, dbs, store, calls, creating, monitor,
                moving, text>>

-----------------------------------------------------------------------------
(* Bounds.  The sector size and the cache capacity are scaled down: the    *)
(* code only divides, multiplies and compares with them.                   *)

\* bytes per sector (the code's remoteSectorSize is 65536)
SectorBytes == 2
\* sectors the cache holds before it evicts (the code's maxCachedSectors is 1600)
CacheSectors == 1
\* sectors of the file under SpecRVFS; SpecCache, which never writes the
\* object, has one more, so that a sector is evicted beside a dirty one
MaxSectors == 2
\* longest buffer a WriteAt or ReadAt is given
MaxBuf == 3
\* diskFile handles open on the path at once
MaxHandles == 2
\* how far below zero a run follows a shared count
MaxUnderflow == 1
\* Database records a run makes
MaxRecords == 3
\* Query and Execute calls in flight at once
MaxCalls == 1
\* requests a record counts before the run stops sending more
MaxCount == 2
\* goroutines of one kind waiting on one record
MaxPending == 1
\* unsigned stage indexes wrap at this value
UintModulus == 16
\* turns of a loop over the stages followed before it counts as endless
MaxLoop == 4
\* requests and waiting promotions of a burst of requests
MaxBurst == 3
BurstPending == 2
\* rows a table holds
MaxRows == 1
\* create requests in progress at once
MaxCreates == 2
\* statements of one query request (the handler takes 1 to 16)
MaxQueries == 3
\* the longest query string handed to IsWriteOperation, in characters
MaxText == 5
\* the largest StageTimeoutSeconds configured, in seconds (the default is 300)
MaxTimeout == 3
\* workers the query handler starts at most (the code's numWorkers is 10)
MaxWorkers == 2

remoteSectorSize == SectorBytes
maxCachedSectors == CacheSectors
MaxSize == span * remoteSectorSize

\* byte values: 0 is what clear() and make() produce, OldByte what the object
\* held before the handle was opened, WriteByte what WriteAt is given
OldByte == {1}
WriteByte == {1}
Sectors == 0..(span - 1)

Min(a, b) == IF a < b THEN a ELSE b
Max(a, b) == IF a > b THEN a ELSE b
Zeros(n) == [i \in 1..n |-> 0]
Fill(n, v) == [i \in 1..n |-> v]

\* map[int64]*sector as a function on the keys present
Put(m, k, v) == [x \in (DOMAIN m) \cup {k} |-> IF x = k THEN v ELSE m[x]]
Drop(m, K) == [x \in (DOMAIN m) \ K |-> m[x]]
EmptyMap == [x \in {} |-> 0]

\* the order of the sectors' lastUsed stamps, oldest first
Without(s, k) == SelectSeq(s, LAMBDA x : x # k)
Touch(s, k) == Append(Without(s, k), k)

-----------------------------------------------------------------------------
(* The object store, as the handle uses it.                                *)

NoObject == [exists |-> FALSE, data |-> <<>>]
Object(d) == [exists |-> TRUE, data |-> d]
ObjBytes(o) == IF o.exists THEN o.data ELSE <<>>

\* GetObject with Range bytes=start-end, read into s.data[:end-start+1] and the
\* tail cleared.  A missing key and a range that starts at or past the end of
\* the object are errors of the store.
RangeGet(o, start, end) ==
    [ok   |-> o.exists /\ start < Len(o.data),
     data |-> [i \in 1..remoteSectorSize |->
                 IF o.exists /\ start + i - 1 <= Min(end, Len(o.data) - 1)
                 THEN o.data[start + i] ELSE 0]]

\* GetObject of the whole key read into buf (make([]byte, size)); an error of
\* the store, or getOk = FALSE, leaves buf as make() gave it
WholeGet(o, size, getOk) ==
    [i \in 1..size |->
        IF getOk /\ o.exists /\ i <= Len(o.data) THEN o.data[i] ELSE 0]

-----------------------------------------------------------------------------
(* The r2File handle.                                                      *)

\* the engine's lock levels, lowest first
LockOrder == <<"NONE", "SHARED", "RESERVED", "PENDING", "EXCLUSIVE">>
Rank(name) == CHOOSE i \in 1..Len(LockOrder) : LockOrder[i] = name
LOCK_NONE == Rank("NONE")
LOCK_SHARED == Rank("SHARED")
LOCK_RESERVED == Rank("RESERVED")
LOCK_PENDING == Rank("PENDING")
LOCK_EXCLUSIVE == Rank("EXCLUSIVE")
LockLevel == 1..Len(LockOrder)

NoHandle ==
    [status |-> "none", readOnly |-> FALSE, size |-> 0,
     cache |-> EmptyMap, lru |-> <<>>, dirtySectors |-> EmptyMap,
     lock |-> LOCK_NONE, shared |-> 0, pending |-> FALSE, reserved |-> FALSE]

\* a sector of the cache
Sector(d, dirty) == [data |-> d, dirty |-> dirty]
\* an entry of dirtySectors points at a sector: the one cached under the same
\* index (alias) or one the cache no longer holds (its data kept here)
Alias == [alias |-> TRUE, data |-> <<>>]
Detached(d) == [alias |-> FALSE, data |-> d]
DirtyData(h, k) ==
    IF h.dirtySectors[k].alias THEN h.cache[k].data ELSE h.dirtySectors[k].data

\* what the handle shows at each offset below size: the cached sector where
\* one is resident, the object elsewhere, zero past the object's end
View(h, o) ==
    [i \in 1..h.size |->
        LET k == (i - 1) \div remoteSectorSize
            so == (i - 1) % remoteSectorSize
        IN IF k \in DOMAIN h.cache THEN h.cache[k].data[so + 1]
           ELSE IF o.exists /\ i <= Len(o.data) THEN o.data[i] ELSE 0]

\* an eviction that takes the least recently used sector, dirty or not
evictLeastRecent(h) ==
    IF h.lru = <<>> THEN h
    ELSE [h EXCEPT !.cache = Drop(h.cache, {h.lru[1]}),
                   !.lru = Tail(h.lru)]

\* an eviction that takes the clean sector used last
evictNewestClean(h) ==
    LET clean == {i \in 1..Len(h.lru) : ~h.cache[h.lru[i]].dirty}
    IN IF clean = {} THEN h
       ELSE LET newest == CHOOSE i \in clean : \A j \in clean : i >= j
            IN [h EXCEPT !.cache = Drop(h.cache, {h.lru[newest]}),
                         !.lru = Without(h.lru, h.lru[newest])]

\* evictOldSectors: the least recently used clean sector leaves the cache;
\* nothing leaves when every resident sector is dirty
evictOldSectors(h) ==
    LET clean == {i \in 1..Len(h.lru) : ~h.cache[h.lru[i]].dirty}
    IN IF clean = {} THEN h
       ELSE LET first == CHOOSE i \in clean : \A j \in clean : i <= j
                oldestSector == h.lru[first]
            IN [h EXCEPT !.cache = Drop(h.cache, {oldestSector}),
                         !.lru = Without(h.lru, oldestSector)]

\* failAt: the sectors whose range read the network fails
getSector(h, o, sectorNum, failAt) ==
    IF sectorNum \in DOMAIN h.cache
    THEN [ok |-> TRUE, evicted |-> FALSE,
          h |-> [h EXCEPT !.lru = Touch(h.lru, sectorNum)]]
    ELSE LET h1 == IF Cardinality(DOMAIN h.cache) >= maxCachedSectors
                   THEN evictOldSectors(h) ELSE h
             start == sectorNum * remoteSectorSize
             end == Min(start + remoteSectorSize - 1, h.size - 1)
             got == RangeGet(o, start, end)
             fetch == start < h.size
         IN IF fetch /\ (sectorNum \in failAt \/ ~got.ok)
            THEN [ok |-> FALSE, evicted |-> h1 # h, h |-> h1]
            ELSE [ok |-> TRUE, evicted |-> h1 # h,
                  h |-> [h1 EXCEPT
                     !.cache = Put(h1.cache, sectorNum,
                        Sector(IF fetch THEN got.data
                               ELSE Zeros(remoteSectorSize), FALSE)),
                     !.lru = Append(h1.lru, sectorNum)]]

RECURSIVE ReadLoop(_, _, _, _, _, _, _)
ReadLoop(h, o, off, totalBytes, out, ev, failAt) ==
    LET bytesRead == Len(out)
        currentOffset == off + bytesRead
    IN IF bytesRead >= totalBytes \/ currentOffset >= h.size
       THEN [h |-> h, data |-> out, err |-> "OK", evicted |-> ev]
       ELSE LET sectorNum == currentOffset \div remoteSectorSize
                sectorOffset == currentOffset % remoteSectorSize
                g == getSector(h, o, sectorNum, failAt)
                toRead == Min(remoteSectorSize - sectorOffset,
                              Min(h.size - currentOffset, totalBytes - bytesRead))
            IN IF ~g.ok
               THEN [h |-> g.h, data |-> out, err |-> "IOERR_READ",
                     evicted |-> ev \/ g.evicted]
               ELSE IF toRead <= 0
               THEN [h |-> g.h, data |-> out, err |-> "OK",
                     evicted |-> ev \/ g.evicted]
               ELSE ReadLoop(g.h, o, off, totalBytes,
                        out \o SubSeq(g.h.cache[sectorNum].data,
                                      sectorOffset + 1, sectorOffset + toRead),
                        ev \/ g.evicted, failAt)

r2ReadAt(h, o, off, totalBytes, failAt) ==
    IF off >= h.size
    THEN [h |-> h, data |-> <<>>, err |-> "EOF", evicted |-> FALSE]
    ELSE LET r == ReadLoop(h, o, off, totalBytes, <<>>, FALSE, failAt)
         IN IF r.err = "OK" /\ Len(r.data) = 0 /\ totalBytes > 0
            THEN [r EXCEPT !.err = "EOF"] ELSE r

RECURSIVE WriteLoop(_, _, _, _, _, _, _)
WriteLoop(h, o, b, off, bytesWritten, ev, failAt) ==
    IF bytesWritten >= Len(b)
    THEN [h |-> h, n |-> bytesWritten, err |-> "OK", evicted |-> ev]
    ELSE LET currentOffset == off + bytesWritten
             sectorNum == currentOffset \div remoteSectorSize
             sectorOffset == currentOffset % remoteSectorSize
             g == getSector(h, o, sectorNum, failAt)
             toWrite == Min(remoteSectorSize - sectorOffset, Len(b) - bytesWritten)
         IN IF ~g.ok
            THEN [h |-> g.h, n |-> bytesWritten, err |-> "IOERR_READ",
                  evicted |-> ev \/ g.evicted]
            ELSE LET old == g.h.cache[sectorNum].data
                     new == [i \in 1..remoteSectorSize |->
                               IF i > sectorOffset /\ i <= sectorOffset + toWrite
                               THEN b[bytesWritten + i - sectorOffset] ELSE old[i]]
                     h2 == [g.h EXCEPT
                              !.cache[sectorNum] = Sector(new, TRUE),
                              !.lru = Touch(g.h.lru, sectorNum),
                              !.dirtySectors = Put(g.h.dirtySectors, sectorNum, Alias)]
                 IN WriteLoop(h2, o, b, off, bytesWritten + toWrite,
                              ev \/ g.evicted, failAt)

r2WriteAt(h, o, b, off, failAt) ==
    IF h.readOnly
    THEN [h |-> h, n |-> 0, err |-> "IOERR_READ", evicted |-> FALSE]
    ELSE LET r == WriteLoop(h, o, b, off, 0, FALSE, failAt)
         IN IF r.err = "OK"
            THEN [r EXCEPT !.h.size = Max(r.h.size, off + Len(b))]
            ELSE r

r2Truncate(h, size) ==
    LET firstSectorToRemove == (size + remoteSectorSize - 1) \div remoteSectorSize
        gone == {k \in DOMAIN h.cache : k >= firstSectorToRemove}
        \* the entries of dirtySectors keep pointing at the sectors removed
        kept == [k \in DOMAIN h.dirtySectors |->
                   IF k \in gone /\ h.dirtySectors[k].alias
                   THEN Detached(h.cache[k].data) ELSE h.dirtySectors[k]]
        h1 == [h EXCEPT !.size = size,
                        !.cache = Drop(h.cache, gone),
                        !.lru = SelectSeq(h.lru, LAMBDA k : k \notin gone),
                        !.dirtySectors = kept]
        lastSectorNum == size \div remoteSectorSize
        offset == size % remoteSectorSize
    IN IF offset # 0 /\ lastSectorNum \in DOMAIN h1.cache
       THEN [h1 EXCEPT
               !.cache[lastSectorNum] =
                   Sector([i \in 1..remoteSectorSize |->
                             IF i > offset THEN 0
                             ELSE h1.cache[lastSectorNum].data[i]], TRUE),
               !.dirtySectors = Put(h1.dirtySectors, lastSectorNum, Alias)]
       ELSE h1

\* the loop of Sync over the dirty sectors it took: buf with every sector laid
\* over it, in any order (the windows do not overlap)
Overlay(h, buf, dirty) ==
    [i \in 1..Len(buf) |->
        LET k == (i - 1) \div remoteSectorSize
        IN IF k \in dirty THEN DirtyData(h, k)[((i - 1) % remoteSectorSize) + 1]
           ELSE buf[i]]

\* buf[start:end] with start past end: the slice expression panics
SyncPanics(h) ==
    \E k \in DOMAIN h.dirtySectors : k * remoteSectorSize > h.size

ClearDirty(h, K) ==
    [h EXCEPT !.cache = [k \in DOMAIN h.cache |->
                           IF k \in K THEN [h.cache[k] EXCEPT !.dirty = FALSE]
                           ELSE h.cache[k]]]

-----------------------------------------------------------------------------
(* The calls on the handle, as actions.                                    *)

\* last is set by Sync and cleared by every other call
NoCall ==
    [op |-> "none", ret |-> "OK", view |-> <<>>, dirtyBefore |-> {},
     put |-> "none"]
\* tracked follows one successful WriteAt(buf, off) while the calls after it
\* are reads, and writes to other sectors: evicted and read say whether one
\* of them evicted a sector, and whether a ReadAt was among them
NoWrite == [on |-> FALSE, buf |-> <<>>, off |-> 0, evicted |-> FALSE,
            read |-> FALSE]

\* the sectors whose range read a call for n bytes at off may issue
Fetches(h, off, n) ==
    {k \in Sectors : /\ k * remoteSectorSize < off + n
                     /\ (k + 1) * remoteSectorSize > off
                     /\ k \notin DOMAIN h.cache
                     /\ k * remoteSectorSize < h.size}

\* the sectors a buffer of length n at off covers
Covers(off, n) == {k \in 0..((off + n) \div remoteSectorSize) :
                     k * remoteSectorSize < off + n
                     /\ (k + 1) * remoteSectorSize > off}

\* the objects the key may hold before the handle is opened
InitialObjects(sectors) ==
    {NoObject} \cup {Object(Fill(n, v)) : n \in 0..(sectors * remoteSectorSize), v \in OldByte}

\* r2VFS.Open: HeadObject answers, or fails (headOk = FALSE, or the key is
\* missing), and then only CREATE opens the file, at size 0
\* what an Open was given and what it returned
OpenCall(typed, create, headOk, ret) ==
    [op |-> "Open", ret |-> ret, typed |-> typed, create |-> create,
     headOk |-> headOk]

\* typed: the flags hold one of the file-class bits; seen: whether the run
\* keeps the call and its answer in last, and follows the calls that
\* return CANTOPEN
OpenStep(seen) ==
    /\ f.status \in {"none", "closed"}
    /\ \E typed \in BOOLEAN, readOnly \in BOOLEAN, create \in BOOLEAN,
          headOk \in BOOLEAN :
         LET found == headOk /\ obj.exists
             opens == typed /\ (found \/ create)
         IN /\ seen \/ opens
            /\ f' = IF opens
                    THEN [NoHandle EXCEPT !.status = "open", !.readOnly = readOnly,
                             !.size = IF found THEN Len(obj.data) ELSE 0]
                    ELSE f
            /\ last' = IF seen
                       THEN OpenCall(typed, create, headOk,
                                     IF opens THEN "OK" ELSE "CANTOPEN")
                       ELSE NoCall
    /\ UNCHANGED peer
    /\ tracked' = NoWrite
    /\ UNCHANGED <<obj, span>>
    /\ UNCHANGED notRVFS

Open == OpenStep(FALSE)

\* one call of getSector, as ReadAt and WriteAt make it for each sector
\* they touch; fails: the network fails the range read, if one is issued
getSectorCall(sectorNum, fails) ==
    LET g == getSector(f, obj, sectorNum, IF fails THEN {sectorNum} ELSE {}) IN
    /\ f.status = "open"
    /\ f' = g.h
    /\ last' = [op |-> "getSector", sectorNum |-> sectorNum, ok |-> g.ok,
                fails |-> fails, before |-> f]
    /\ UNCHANGED <<obj, span, tracked, peer>>
    /\ UNCHANGED notRVFS

\* what a ReadAt was given and what it returned
ReadCall(h, off, n, r) ==
    [op |-> "ReadAt", ret |-> r.err, off |-> off, n |-> n, data |-> r.data,
     size |-> h.size, fetched |-> r.h # h]

\* seen: whether the run keeps the call and its answer in last
ReadAtStep(seen) ==
    /\ f.status = "open"
    /\ \E off \in 0..MaxSize, n \in 1..MaxBuf :
       \E failAt \in {{k} : k \in Fetches(f, off, n)} \cup {{}} :
         LET r == r2ReadAt(f, obj, off, n, failAt)
         IN /\ f' = r.h
            /\ last' = IF seen THEN ReadCall(f, off, n, r) ELSE NoCall
            /\ UNCHANGED peer
            /\ tracked' = IF tracked.on
                          THEN [tracked EXCEPT !.evicted = @ \/ r.evicted,
                                               !.read = TRUE]
                          ELSE tracked
    /\ UNCHANGED <<obj, span>>
    /\ UNCHANGED notRVFS

ReadAt == ReadAtStep(FALSE)

\* what a WriteAt was given and what it returned
WriteCall(b, off, r) ==
    [op |-> "WriteAt", ret |-> r.err, off |-> off, buf |-> b, n |-> r.n]

\* seen: whether the run keeps the call and its answer in last; values: the
\* bytes the buffer is filled with
WriteAtStep(seen, values) ==
    /\ f.status = "open"
    /\ \E off \in 0..(MaxSize - 1), n \in 1..MaxBuf, v \in values :
       \E failAt \in {{k} : k \in Fetches(f, off, n)} \cup {{}}, follow \in BOOLEAN :
         /\ off + n <= MaxSize
         /\ LET b == Fill(n, v)
                r == r2WriteAt(f, obj, b, off, failAt)
                apart == /\ tracked.on
                         /\ Covers(off, n)
                              \cap Covers(tracked.off, Len(tracked.buf)) = {}
            IN /\ follow => (r.err = "OK" /\ apart)
               /\ f' = r.h
               /\ last' = IF seen THEN WriteCall(b, off, r) ELSE NoCall
               /\ UNCHANGED peer
               /\ tracked' =
                    IF r.err = "OK" /\ (follow \/ ~apart)
                    THEN [NoWrite EXCEPT !.on = TRUE, !.buf = b, !.off = off]
                    ELSE IF apart
                    THEN [tracked EXCEPT !.evicted = @ \/ r.evicted]
                    ELSE NoWrite
    /\ UNCHANGED <<obj, span>>
    /\ UNCHANGED notRVFS

WriteAt == WriteAtStep(FALSE, WriteByte)

\* what a Truncate was given and what it returned
TruncateCall(h, size) ==
    [op |-> "Truncate", ret |-> IF h.readOnly THEN "IOERR_READ" ELSE "OK",
     n |-> size]

TruncateStep(seen) ==
    /\ f.status = "open"
    /\ \E size \in 0..MaxSize :
         /\ f' = IF f.readOnly THEN f ELSE r2Truncate(f, size)
         /\ last' = IF seen THEN TruncateCall(f, size) ELSE NoCall
    /\ UNCHANGED peer
    /\ tracked' = NoWrite
    /\ UNCHANGED <<obj, span>>
    /\ UNCHANGED notRVFS

Truncate == TruncateStep(FALSE)

\* Sync: getOk and putOk are the network's answers to the GET of the whole
\* object and to the PUT; done is the part of the dirty sectors the loop had
\* reached when a slice expression panicked
r2Sync(h, o, getOk, putOk, done) ==
    LET dirty == DOMAIN h.dirtySectors
        taken == [h EXCEPT !.dirtySectors = EmptyMap]
        buf == Overlay(h, WholeGet(o, h.size, getOk), dirty)
        call == [NoCall EXCEPT !.op = "Sync", !.view = View(h, o),
                               !.dirtyBefore = dirty]
    IN IF h.readOnly
       THEN [h |-> h, o |-> o, call |-> call]
       ELSE IF dirty = {}
       THEN [h |-> taken, o |-> o, call |-> call]
       ELSE IF SyncPanics(h)
       THEN [h |-> [ClearDirty(taken, done \cap DOMAIN h.cache)
                       EXCEPT !.status = "panicked"],
             o |-> o, call |-> [call EXCEPT !.ret = "panic"]]
       ELSE IF putOk
       THEN [h |-> ClearDirty(taken, dirty \cap DOMAIN h.cache),
             o |-> Object(buf), call |-> [call EXCEPT !.put = "ok"]]
       ELSE [h |-> ClearDirty(taken, dirty \cap DOMAIN h.cache),
             o |-> o,
             call |-> [call EXCEPT !.put = "failed", !.ret = "IOERR_FSYNC"]]

\* follow: whether the run goes on following the tracked write after a
\* Sync that has not stored it
SyncStep(follow) ==
    /\ f.status = "open"
    /\ \E getOk \in BOOLEAN, putOk \in BOOLEAN, done \in SUBSET Sectors :
         LET r == r2Sync(f, obj, getOk, putOk, done)
             written == ~f.readOnly /\ f.dirtySectors # EmptyMap
         IN /\ done \subseteq {k \in DOMAIN f.dirtySectors :
                                  k * remoteSectorSize <= f.size}
            \* the choices that no step of this call reads are left out
            /\ (written /\ SyncPanics(f)) \/ done = {}
            /\ (written /\ ~SyncPanics(f)) \/ putOk
            /\ (written /\ f.size > 0 /\ obj.exists) \/ getOk
            /\ f' = r.h
            /\ obj' = r.o
            /\ last' = r.call
            /\ UNCHANGED peer
            /\ tracked' = IF follow /\ r.call.put # "ok" /\ r.h.status = "open"
                          THEN tracked ELSE NoWrite
    /\ UNCHANGED span
    /\ UNCHANGED notRVFS

Sync == SyncStep(FALSE)

-----------------------------------------------------------------------------
(* The emulated file locks of the R-VFS: the lock fields of one r2File.    *)

\* the result of a Lock, Unlock or Close call
LockCall(op, ret) == [op |-> op, ret |-> ret]

\* the levels the engine asks Lock for, and those it unlocks to
Requested == {LOCK_SHARED, LOCK_RESERVED, LOCK_EXCLUSIVE}
Released == {LOCK_SHARED, LOCK_NONE}

\* r2File.Lock. No other goroutine uses the handle, so a wait for
\* f.shared > 1 to end can only time out.
r2Lock(h, lock) ==
    IF h.lock >= lock THEN [h |-> h, ret |-> "OK"]
    ELSE IF h.readOnly /\ lock >= LOCK_RESERVED THEN [h |-> h, ret |-> "IOERR_LOCK"]
    ELSE IF lock = LOCK_SHARED
    THEN IF h.pending THEN [h |-> h, ret |-> "BUSY"]
         ELSE [h |-> [h EXCEPT !.shared = @ + 1, !.lock = lock], ret |-> "OK"]
    ELSE IF lock = LOCK_RESERVED
    THEN IF h.reserved THEN [h |-> h, ret |-> "BUSY"]
         ELSE [h |-> [h EXCEPT !.reserved = TRUE, !.lock = lock], ret |-> "OK"]
    ELSE IF lock = LOCK_EXCLUSIVE
    THEN LET p == IF h.lock < LOCK_PENDING
                  THEN [h EXCEPT !.lock = LOCK_PENDING, !.pending = TRUE]
                  ELSE h
         IN IF p.shared > 1 THEN [h |-> p, ret |-> "BUSY"]
            ELSE [h |-> [p EXCEPT !.lock = lock], ret |-> "OK"]
    ELSE [h |-> [h EXCEPT !.lock = lock], ret |-> "OK"]

\* r2File.Unlock
r2Unlock(h, lock) ==
    IF h.lock <= lock THEN h
    ELSE [h EXCEPT
            !.reserved = IF h.lock >= LOCK_RESERVED THEN FALSE ELSE @,
            !.pending = IF h.lock >= LOCK_PENDING THEN FALSE ELSE @,
            !.shared = IF lock < LOCK_SHARED THEN @ - 1 ELSE @,
            !.lock = lock]

Lock(lock) ==
    /\ f.status = "open"
    /\ LET r == r2Lock(f, lock)
       IN /\ f' = r.h
          /\ last' = LockCall("Lock", r.ret)
    /\ UNCHANGED <<obj, span, tracked, peer>>
    /\ UNCHANGED notRVFS

Unlock(lock) ==
    /\ f.status = "open"
    /\ LET h == r2Unlock(f, lock)
       IN /\ h.shared >= 0 - MaxUnderflow
          /\ f' = h
          /\ last' = LockCall("Unlock", "OK")
    /\ UNCHANGED <<obj, span, tracked, peer>>
    /\ UNCHANGED notRVFS

\* r2File.CheckReservedLock
r2CheckReservedLock(h) == h.lock >= LOCK_RESERVED \/ h.reserved

\* what CheckReservedLock returned, as a call
Answer(b) == IF b THEN "TRUE" ELSE "FALSE"

CheckReservedLock ==
    /\ f.status = "open"
    /\ last' = LockCall("CheckReservedLock", Answer(r2CheckReservedLock(f)))
    /\ UNCHANGED rvfsVars
    /\ UNCHANGED notRVFS

\* r2VFS.Open once more on the key of the handle: a new r2File with lock
\* fields of its own
peerOpen ==
    /\ f.status = "open"
    /\ peer.status = "none"
    /\ \E readOnly \in BOOLEAN :
         peer' = [NoHandle EXCEPT !.status = "open", !.readOnly = readOnly]
    /\ last' = NoCall
    /\ UNCHANGED <<obj, f, span, tracked>>
    /\ UNCHANGED notRVFS

\* r2File.Lock on the second handle
peerLock(lock) ==
    /\ peer.status = "open"
    /\ LET r == r2Lock(peer, lock)
       IN /\ peer' = r.h
          /\ last' = LockCall("Lock", r.ret)
    /\ UNCHANGED <<obj, f, span, tracked>>
    /\ UNCHANGED notRVFS

\* r2File.Unlock on the second handle
peerUnlock(lock) ==
    /\ peer.status = "open"
    /\ LET h == r2Unlock(peer, lock)
       IN /\ h.shared >= 0 - MaxUnderflow
          /\ peer' = h
          /\ last' = LockCall("Unlock", "OK")
    /\ UNCHANGED <<obj, f, span, tracked>>
    /\ UNCHANGED notRVFS

\* r2File.Close: Sync(SYNC_NORMAL), then Unlock(LOCK_NONE) unless the Sync
\* returned an error. The engine uses the handle no more after the call.
Close ==
    /\ f.status = "open"
    /\ \E getOk \in BOOLEAN, putOk \in BOOLEAN, done \in SUBSET Sectors :
         LET r == r2Sync(f, obj, getOk, putOk, done)
             written == ~f.readOnly /\ f.dirtySectors # EmptyMap
             h == IF r.call.ret = "OK" THEN r2Unlock(r.h, LOCK_NONE) ELSE r.h
         IN /\ done \subseteq {k \in DOMAIN f.dirtySectors :
                                  k * remoteSectorSize <= f.size}
            /\ (written /\ SyncPanics(f)) \/ done = {}
            /\ (written /\ ~SyncPanics(f)) \/ putOk
            /\ (written /\ f.size > 0 /\ obj.exists) \/ getOk
            /\ f' = IF h.status = "open" THEN [h EXCEPT !.status = "closed"] ELSE h
            /\ obj' = r.o
            /\ last' = LockCall("Close", r.call.ret)
    /\ UNCHANGED peer
    /\ tracked' = NoWrite
    /\ UNCHANGED span
    /\ UNCHANGED notRVFS

-----------------------------------------------------------------------------
(* The emulated file locks of the Local VFS: diskFile handles on one path, *)
(* and the fileLockState the fileLocks map keeps for the path. Lock and    *)
(* Unlock read the map under globalLockMtx, release it, and only then take *)
(* the mutex of the state they found: other handles run in between.        *)

Handles == 1..MaxHandles
\* a pointer to a fileLockState: the set of the state it points at, empty
\* for nil
NoEntry == {}
At(ref) == CHOOSE e \in ref : TRUE
\* a handle holds at most one fileLockState the map has dropped
Entries == 1..(MaxHandles + 1)
NoLockState == [shared |-> 0, pending |-> FALSE, reserved |-> FALSE]

NoDisk ==
    [open |-> FALSE, readOnly |-> FALSE, lock |-> LOCK_NONE, shared |-> 0,
     pending |-> FALSE, reserved |-> FALSE,
     pc |-> "idle", req |-> LOCK_NONE, ref |-> NoEntry, closing |-> FALSE]

\* the call of handle d returns: it keeps no lockState pointer
Return(d) == [d EXCEPT !.pc = "idle", !.ref = NoEntry, !.req = LOCK_NONE,
                       !.closing = FALSE]

\* the fileLockStates some pointer still reaches
Live(d, fl) == UNION {d[h].ref : h \in Handles} \cup fl
\* a fileLockState no pointer reaches is gone
Collect(ls, d, fl) ==
    [e \in Entries |-> IF e \in Live(d, fl) THEN ls[e] ELSE NoLockState]
\* &fileLockState{}
NewEntry(d, fl) == {CHOOSE e \in Entries \ Live(d, fl) :
                       \A o \in Entries \ Live(d, fl) : e <= o}

\* a wait for EXCLUSIVE that counts the handle's own shared lock
ContendedByOwn(ls, d) == ls.shared > 0

\* Lock's wait: other shared locks are still held
Contended(ls, d) == ls.shared > 1 \/ (ls.shared > 0 /\ d.shared = 0)

\* diskVFS.Open, in a run that locks no r2File
diskOpen(h) ==
    /\ f.status = "none"
    /\ ~disk[h].open
    /\ \E readOnly \in BOOLEAN :
         disk' = [disk EXCEPT ![h] = [NoDisk EXCEPT !.open = TRUE,
                                                    !.readOnly = readOnly]]
    /\ fileLocks' = IF fileLocks = NoEntry THEN NewEntry(disk, fileLocks)
                    ELSE fileLocks
    /\ last' = NoCall
    /\ UNCHANGED lockStates
    /\ UNCHANGED notDisk

\* diskFile.Lock up to the read of fileLocks[f.name]
diskLock(h, lock) ==
    /\ disk[h].open /\ disk[h].pc = "idle"
    /\ LET d == disk[h]
           done(ret) == /\ last' = LockCall("Lock", ret)
                        /\ UNCHANGED disk
       IN IF d.lock >= lock THEN done("OK")
          ELSE IF d.readOnly /\ lock >= LOCK_RESERVED THEN done("IOERR_LOCK")
          ELSE IF fileLocks = NoEntry THEN done("IOERR_LOCK")
          ELSE /\ disk' = [disk EXCEPT ![h] = [d EXCEPT !.pc = "lock",
                              !.req = lock, !.ref = fileLocks]]
               /\ last' = NoCall
    /\ UNCHANGED <<fileLocks, lockStates>>
    /\ UNCHANGED notDisk

\* diskFile.Lock from lockState.mtx.Lock() to its return, or to the first
\* runtime.Gosched() of the wait for EXCLUSIVE
diskLockLocked(h) ==
    /\ disk[h].pc = "lock"
    /\ LET d == disk[h]
           ls == lockStates[At(d.ref)]
           ret(d1, ls1, code) ==
               /\ disk' = [disk EXCEPT ![h] = Return(d1)]
               /\ lockStates' = Collect([lockStates EXCEPT ![At(d.ref)] = ls1],
                                        disk', fileLocks)
               /\ last' = LockCall("Lock", code)
       IN IF d.req = LOCK_SHARED
          THEN IF ls.pending THEN ret(d, ls, "BUSY")
               ELSE ret([d EXCEPT !.shared = @ + 1, !.lock = d.req],
                        [ls EXCEPT !.shared = @ + 1], "OK")
          ELSE IF d.req = LOCK_RESERVED
          THEN IF ls.reserved THEN ret(d, ls, "BUSY")
               ELSE ret([d EXCEPT !.reserved = TRUE, !.lock = d.req],
                        [ls EXCEPT !.reserved = TRUE], "OK")
          ELSE IF d.req = LOCK_EXCLUSIVE
          THEN LET first == d.lock < LOCK_PENDING
                   d1 == IF first THEN [d EXCEPT !.lock = LOCK_PENDING,
                                                 !.pending = TRUE] ELSE d
                   ls1 == IF first THEN [ls EXCEPT !.pending = TRUE] ELSE ls
               IN IF Contended(ls1, d1)
                  THEN /\ disk' = [disk EXCEPT ![h] = [d1 EXCEPT !.pc = "spin"]]
                       /\ lockStates' = [lockStates EXCEPT ![At(d.ref)] = ls1]
                       /\ last' = NoCall
                  ELSE ret([d1 EXCEPT !.lock = d.req], ls1, "OK")
          ELSE ret([d EXCEPT !.lock = d.req], ls, "OK")
    /\ UNCHANGED fileLocks
    /\ UNCHANGED notDisk

\* the wait for EXCLUSIVE after a runtime.Gosched(): it ends when the other
\* shared locks are gone, and with BUSY when localSpinWait has passed
diskSpin(h) ==
    /\ disk[h].pc = "spin"
    /\ LET d == disk[h]
           busy == Contended(lockStates[At(d.ref)], d)
           d1 == IF busy THEN d ELSE [d EXCEPT !.lock = d.req]
       IN /\ disk' = [disk EXCEPT ![h] = Return(d1)]
          /\ lockStates' = Collect(lockStates, disk', fileLocks)
          /\ last' = LockCall("Lock", IF busy THEN "BUSY" ELSE "OK")
    /\ UNCHANGED fileLocks
    /\ UNCHANGED notDisk

\* diskFile.Unlock up to the read of fileLocks[f.name]
unlockStart(h, lock, closing) ==
    LET d == disk[h]
    IN IF d.lock <= lock
       THEN /\ disk' = [disk EXCEPT ![h] = IF closing THEN [d EXCEPT !.pc = "cleanup"]
                                           ELSE d]
            /\ last' = IF closing THEN NoCall
                       ELSE LockCall("Unlock", "OK")
       ELSE IF fileLocks = NoEntry
       THEN /\ UNCHANGED disk
            /\ last' = LockCall(IF closing THEN "Close" ELSE "Unlock",
                                "IOERR_LOCK")
       ELSE /\ disk' = [disk EXCEPT ![h] = [d EXCEPT !.pc = "unlock",
                           !.req = lock, !.ref = fileLocks, !.closing = closing]]
            /\ last' = NoCall

diskUnlock(h, lock) ==
    /\ disk[h].open /\ disk[h].pc = "idle"
    /\ unlockStart(h, lock, FALSE)
    /\ UNCHANGED <<fileLocks, lockStates>>
    /\ UNCHANGED notDisk

\* diskFile.Unlock from lockState.mtx.Lock() to its return
diskUnlockLocked(h) ==
    /\ disk[h].pc = "unlock"
    /\ LET d == disk[h]
           ls == lockStates[At(d.ref)]
           reserved == d.lock >= LOCK_RESERVED /\ d.reserved
           pending == d.lock >= LOCK_PENDING /\ d.pending
           shared == d.lock >= LOCK_SHARED /\ d.req < LOCK_SHARED
           d1 == [d EXCEPT !.reserved = IF reserved THEN FALSE ELSE @,
                           !.pending = IF pending THEN FALSE ELSE @,
                           !.shared = IF shared THEN @ - 1 ELSE @,
                           !.lock = d.req]
           ls1 == [ls EXCEPT !.reserved = IF reserved THEN FALSE ELSE @,
                             !.pending = IF pending THEN FALSE ELSE @,
                             !.shared = IF shared THEN @ - 1 ELSE @]
       IN /\ ls1.shared >= 0 - MaxUnderflow
          /\ d1.shared >= 0 - MaxUnderflow
          /\ disk' = [disk EXCEPT ![h] =
                        IF d.closing
                        THEN [Return(d1) EXCEPT !.pc = "cleanup"]
                        ELSE Return(d1)]
          /\ lockStates' = Collect([lockStates EXCEPT ![At(d.ref)] = ls1],
                                   disk', fileLocks)
          /\ last' = IF d.closing THEN NoCall
                     ELSE LockCall("Unlock", "OK")
    /\ UNCHANGED fileLocks
    /\ UNCHANGED notDisk

\* diskFile.Close up to the end of its f.Unlock(vfs.LOCK_NONE), or to the
\* read of fileLocks[f.name] in it
diskClose(h) ==
    /\ disk[h].open /\ disk[h].pc = "idle"
    /\ unlockStart(h, LOCK_NONE, TRUE)
    /\ UNCHANGED <<fileLocks, lockStates>>
    /\ UNCHANGED notDisk

\* diskFile.Close after its Unlock: the file is closed and the path's lock
\* state leaves the map when nothing is held through it
diskCleanup(h) ==
    /\ disk[h].pc = "cleanup"
    /\ LET drop == /\ fileLocks # NoEntry
                   /\ lockStates[At(fileLocks)] = NoLockState
       IN /\ fileLocks' = IF drop THEN NoEntry ELSE fileLocks
          /\ disk' = [disk EXCEPT ![h] = NoDisk]
          /\ lockStates' = Collect(lockStates, disk', fileLocks')
    /\ last' = LockCall("Close", "OK")
    /\ UNCHANGED notDisk

\* diskFile.CheckReservedLock: the handle's level, then the path's flag
diskReserved(d, fl, ls) ==
    IF d.lock >= LOCK_RESERVED THEN TRUE
    ELSE IF fl = NoEntry THEN FALSE
    ELSE ls[At(fl)].reserved

diskCheckReservedLock(h) ==
    /\ disk[h].open /\ disk[h].pc = "idle"
    /\ last' = LockCall("CheckReservedLock",
                        Answer(diskReserved(disk[h], fileLocks, lockStates)))
    /\ UNCHANGED diskVars
    /\ UNCHANGED notDisk

-----------------------------------------------------------------------------
(* The database registry and the stage manager.  stages.go exists in two   *)
(* builds: the newer one lists the Local and Remote stages and asks the    *)
(* utils helpers for the neighbours of a stage, the older one lists the    *)
(* Memory, Local and Remote stages and computes with the literals 1 and 3. *)
(* A run is of one build.                                                  *)

Builds == {"newer", "older"}

\* utils.Config: Storage.*.StageNumber and Settings.*
MemoryStage == 1
LocalStage == 2
RemoteStage == 3
DefaultDatabaseCreationStage == 3
PersistenceStage == 3
RequestCountThreshold == 2
AutoStageMovement == TRUE
AutoSyncEnabled == TRUE
LocalDirectoryPath == "./storage"

AllStages == {MemoryStage, LocalStage, RemoteStage}
\* the Stages list SetupStages builds
Stages(b) == IF b = "newer" THEN {LocalStage, RemoteStage} ELSE AllStages

\* the helpers of utils, over the build's Stages list
IsValidStage(b, stage) == stage \in Stages(b)
Closer(b, stage) == {s \in Stages(b) : s < stage}
Farther(b, stage) == {s \in Stages(b) : s > stage}
IsClosestStage(b, stage) == Closer(b, stage) = {}
IsFarthestStage(b, stage) == Farther(b, stage) = {}
GetNextCloserStage(b, stage) ==
    IF Closer(b, stage) = {} THEN 0
    ELSE CHOOSE s \in Closer(b, stage) : \A x \in Closer(b, stage) : x <= s
GetNextFartherStage(b, stage) ==
    IF Farther(b, stage) = {} THEN 0
    ELSE CHOOSE s \in Farther(b, stage) : \A x \in Farther(b, stage) : s <= x
GetFarthestStage(b) == CHOOSE s \in Stages(b) : \A x \in Stages(b) : x <= s
IsRemovableStage(b, stage) == stage \in Stages(b)

\* the databases' names, the tables of a database, and the SQL statements
Names == {"u", "v"}
Tables == {"t"}
Verbs == {"CREATE", "INSERT", "DROP", "SELECT"}
Queries == [verb : Verbs, table : Tables]

\* a database file as a stage holds it: its user tables and their row counts
NoRows == [t \in Tables |-> 0]
NoDb == [exists |-> FALSE, has |-> {}, rows |-> NoRows]
EmptyDb == [exists |-> TRUE, has |-> {}, rows |-> NoRows]
\* what a connection opened on the file sees: a missing file reads as empty
Content(d) == [has |-> d.has, rows |-> d.rows]
NoStore == [n \in Names |-> [s \in AllStages |-> NoDb]]

\* connection.Exec / connection.Query of one statement on a file
Exec(d, q) ==
    LET t == q.table IN
    CASE q.verb = "CREATE" ->
           IF t \in d.has THEN [err |-> "exists", db |-> d]
           ELSE [err |-> "OK", db |-> [d EXCEPT !.exists = TRUE, !.has = @ \cup {t}]]
      [] q.verb = "INSERT" ->
           IF t \notin d.has THEN [err |-> "no such table", db |-> d]
           ELSE [err |-> "OK", db |-> [d EXCEPT !.exists = TRUE, !.rows[t] = @ + 1]]
      [] q.verb = "DROP" ->
           IF t \notin d.has THEN [err |-> "no such table", db |-> d]
           ELSE [err |-> "OK",
                 db |-> [d EXCEPT !.exists = TRUE, !.has = @ \ {t}, !.rows[t] = 0]]
      [] OTHER ->
           IF t \notin d.has THEN [err |-> "no such table", db |-> d]
           ELSE [err |-> "OK", db |-> d]

IsWriteOperation(q) == q.verb \in {"INSERT", "CREATE", "DROP"}

\* utils.IsWriteOperation on the characters of the query string
Space == " "
Letters == {"D", "R", "O", "P", "S", "d", "p"}
toUpper(c) == CASE c = "d" -> "D" [] c = "p" -> "P" [] OTHER -> c
ToUpper(query) == [i \in 1..Len(query) |-> toUpper(query[i])]
RECURSIVE TrimLeft(_)
TrimLeft(query) ==
    IF query # <<>> /\ Head(query) = Space THEN TrimLeft(Tail(query)) ELSE query
RECURSIVE TrimRight(_)
TrimRight(query) ==
    IF query # <<>> /\ query[Len(query)] = Space
    THEN TrimRight(SubSeq(query, 1, Len(query) - 1)) ELSE query
TrimSpace(query) == TrimRight(TrimLeft(query))
HasPrefix(query, op) ==
    Len(query) >= Len(op) /\ SubSeq(query, 1, Len(op)) = op
writeOperations ==
    {<<"I", "N", "S", "E", "R", "T">>, <<"U", "P", "D", "A", "T", "E">>,
     <<"D", "E", "L", "E", "T", "E">>, <<"C", "R", "E", "A", "T", "E">>,
     <<"D", "R", "O", "P">>, <<"A", "L", "T", "E", "R">>}
IsWriteText(query) ==
    \E op \in writeOperations : HasPrefix(ToUpper(TrimSpace(query)), op)

\* the query strings of up to MaxText characters, and the call
Texts == UNION {[1..n -> Letters \cup {Space}] : n \in 0..MaxText}
NoText == [query |-> <<>>, state |-> "idle", write |-> FALSE]

\* the path conventions
MemoryPath(name) == <<"/", name>>
LocalPath(name) == <<LocalDirectoryPath, "/", name, ".db">>
RemotePath(name) == <<name>>

\* a Database record; cold says that StageTimeoutSeconds have passed since
\* LastAccessed
RecIds == 1..MaxRecords
NoRecord == [name |-> "", stage |-> 0, path |-> <<>>, requestCount |-> 0, cold |-> FALSE]
Record(name, stage, path) ==
    [name |-> name, stage |-> stage, path |-> path, requestCount |-> 0, cold |-> FALSE]

\* stages.updateDatabasePath: the newer build has no case for the memory stage
updateDatabasePath(b, r, targetStage) ==
    CASE targetStage = MemoryStage /\ b = "older" -> [r EXCEPT !.path = MemoryPath(r.name)]
      [] targetStage = LocalStage -> [r EXCEPT !.path = LocalPath(r.name)]
      [] targetStage = RemoteStage -> [r EXCEPT !.path = RemotePath(r.name)]
      [] OTHER -> r

\* the file a connection string names and the VFS that opens it
Connection(vfs, file) == [vfs |-> vfs, file |-> file]
NoConnection == Connection("", <<>>)

\* Database.GetConnectionString: the memory and the remote stage take the
\* record's name, the local stage and an unknown stage take its path
ConnectionString(r) ==
    CASE r.stage = MemoryStage -> Connection("memory", <<"/", r.name>>)
      [] r.stage = LocalStage -> Connection("disk", r.path)
      [] r.stage = RemoteStage -> Connection("r2", <<r.name, ".db">>)
      [] OTHER -> Connection("disk", r.path)

\* stages.GetConnectionStringForStage with the local directory dir: every
\* stage takes the record's name; the older build's getLocalPath has the
\* directory as a literal
GetConnectionStringForStage(b, r, stage, dir) ==
    CASE stage = MemoryStage /\ b = "older" -> Connection("memory", <<"/", r.name>>)
      [] stage = LocalStage ->
           Connection("disk", <<IF b = "older" THEN "./storage" ELSE dir,
                                "/", r.name, ".db">>)
      [] stage = RemoteStage -> Connection("r2", <<r.name, ".db">>)
      [] OTHER -> NoConnection

\* stages.GetConnectionStringForStage: whether it returns a connection string
HasConnectionString(b, stage) == stage \in Stages(b)

\* where an I/O step of a copy fails, if it does
Failures == {"none", "source", "target", "delete", "copy"}

Copied(d) == [exists |-> TRUE, has |-> d.has, rows |-> d.rows]

\* the older copyAcrossVFS: inside one transaction on the target, each user
\* table of the source is dropped, created and filled; nothing else is touched
copyAcrossVFS(source, target) ==
    [exists |-> TRUE,
     has |-> target.has \cup source.has,
     rows |-> [t \in Tables |-> IF t \in source.has THEN source.rows[t]
                                ELSE target.rows[t]]]

\* the older copyFromMemoryStage: VACUUM INTO a temporary file, then VACUUM
\* INTO the path cut out of the target's connection string, which names a
\* file of the local disk: the local stage's file, or a file beside it when
\* the target is the remote stage
copyFromMemoryStage(files, targetStage) ==
    IF targetStage = LocalStage
    THEN [files EXCEPT ![targetStage] = Copied(files[MemoryStage])]
    ELSE files

\* stages.copyDataBetweenStages on the files of one database, stage by stage
copyDataBetweenStages(b, files, sourceStage, targetStage, fail) ==
    IF b = "newer"
    THEN IF ~HasConnectionString(b, sourceStage) \/ ~HasConnectionString(b, targetStage)
         THEN [err |-> "error", files |-> files]
         ELSE IF fail = "delete"
         THEN [err |-> "error", files |-> files]
         ELSE IF fail \in {"source", "copy"}
         THEN [err |-> "error", files |-> [files EXCEPT ![targetStage] = NoDb]]
         ELSE [err |-> "OK",
               files |-> [files EXCEPT ![targetStage] = Copied(files[sourceStage])]]
    ELSE IF fail # "none"
         THEN [err |-> "error", files |-> files]
         ELSE IF sourceStage = MemoryStage
         THEN [err |-> "OK", files |-> copyFromMemoryStage(files, targetStage)]
         ELSE [err |-> "OK",
               files |-> [files EXCEPT ![targetStage] =
                             copyAcrossVFS(files[sourceStage], files[targetStage])]]

\* stages.syncToStage: copy from the record's stage, the record left alone
syncToStage(b, r, files, targetStage, fail) ==
    IF fail \in {"source", "target"} \/ ~HasConnectionString(b, targetStage)
    THEN [err |-> "error", files |-> files]
    ELSE copyDataBetweenStages(b, files, r.stage, targetStage, fail)

SetStage(r, stage) == [r EXCEPT !.stage = stage]
SetRequestCount(r, n) == [r EXCEPT !.requestCount = n]

\* MoveToStage with the stage set and the path left as it was
MoveToStageKeepsPath(b, r, files, targetStage, fail) ==
    IF r.stage = targetStage \/ fail # "none" \/ ~HasConnectionString(b, targetStage)
    THEN [err |-> IF r.stage = targetStage THEN "OK" ELSE "error", r |-> r, files |-> files]
    ELSE [err |-> "OK", r |-> SetStage(r, targetStage),
          files |-> copyDataBetweenStages(b, files, r.stage, targetStage, fail).files]

\* stages.MoveToStage; the older build's syncDown and syncUp set the stage
\* before they copy and set it back when a step fails
MoveToStage(b, r, files, targetStage, fail) ==
    IF ~(IF b = "newer" THEN IsValidStage(b, targetStage) ELSE targetStage \in 1..3)
    THEN [err |-> "error", r |-> r, files |-> files]
    ELSE IF r.stage = targetStage
    THEN [err |-> "OK", r |-> r, files |-> files]
    ELSE IF b = "newer"
    THEN LET c == syncToStage(b, r, files, targetStage, fail) IN
         IF c.err # "OK"
         THEN [err |-> "error", r |-> r, files |-> c.files]
         ELSE [err |-> "OK",
               r |-> updateDatabasePath(b, SetStage(r, targetStage), targetStage),
               files |-> c.files]
    ELSE IF fail \in {"source", "target"}
    THEN [err |-> "error", r |-> SetStage(SetStage(r, targetStage), r.stage),
          files |-> files]
    ELSE LET c == copyDataBetweenStages(b, files, r.stage, targetStage, fail) IN
         IF c.err # "OK"
         THEN [err |-> "error", r |-> SetStage(SetStage(r, targetStage), r.stage),
               files |-> c.files]
         ELSE [err |-> "OK",
               r |-> updateDatabasePath(b, SetStage(r, targetStage), targetStage),
               files |-> c.files]

\* the loop of SyncToUpperStages: stage after stage, up to the farthest, and
\* out at the first failure
RECURSIVE syncUpper(_, _, _, _, _)
syncUpper(b, r, files, stage, failAt) ==
    IF stage = 0 \/ stage > (IF b = "newer" THEN GetFarthestStage(b) ELSE 3)
    THEN [err |-> "OK", files |-> files]
    ELSE LET c == syncToStage(b, r, files, stage,
                              IF stage \in failAt THEN "copy" ELSE "none") IN
         IF c.err # "OK" THEN c
         ELSE syncUpper(b, r, c.files,
                        IF b = "newer" THEN GetNextFartherStage(b, stage)
                        ELSE IF stage < 3 THEN stage + 1 ELSE 0,
                        failAt)

\* the loop of the newer demoteToFartherStage: the same, a failure logged
\* and the loop continued
RECURSIVE syncBeforeDemotion(_, _, _, _, _)
syncBeforeDemotion(b, r, files, stage, failAt) ==
    IF stage = 0 \/ stage > GetFarthestStage(b)
    THEN files
    ELSE syncBeforeDemotion(b, r,
             syncToStage(b, r, files, stage,
                         IF stage \in failAt THEN "copy" ELSE "none").files,
             GetNextFartherStage(b, stage), failAt)

\* stages.RemoveFromStage on the files of the record's database
RemoveFromStage(b, r, files, stage, fail) ==
    IF ~(IF b = "newer" THEN IsRemovableStage(b, stage) ELSE stage \in 1..3)
    THEN [err |-> "error", files |-> files]
    ELSE IF stage = r.stage
    THEN [err |-> "error", files |-> files]
    ELSE IF fail
    THEN [err |-> "error", files |-> files]
    ELSE IF stage = MemoryStage
    THEN [err |-> "OK", files |-> [files EXCEPT ![MemoryStage] = NoDb]]
    ELSE IF stage = LocalStage
    THEN \* localvfs.Delete(database.GetPath()): os.Remove on the record's
         \* path, and nil when no file has that path
         IF r.path = LocalPath(r.name)
         THEN [err |-> "OK", files |-> [files EXCEPT ![LocalStage] = NoDb]]
         ELSE [err |-> "OK", files |-> files]
    ELSE [err |-> "OK", files |-> [files EXCEPT ![RemoteStage] = NoDb]]

\* stage-- on an unsigned stage index, in the width of the model
Dec(stage) == (stage + UintModulus - 1) % UintModulus

\* a loop of Database.Delete that starts at the farthest stage, whatever
\* the persistence stage
removeDownFromFarthest(b, r, files, stage, failAt) ==
    LET step(fs, st) == IF st < r.stage THEN fs
                        ELSE RemoveFromStage(b, r, fs, st, st \in failAt).files
    IN step(step(step(files, RemoteStage), LocalStage), MemoryStage)

\* the loop of Database.Delete: from the persistence stage down to the
\* record's stage, errors logged
RECURSIVE removeDown(_, _, _, _, _)
removeDown(b, r, files, stage, failAt) ==
    IF stage < r.stage
    THEN files
    ELSE removeDown(b, r, RemoveFromStage(b, r, files, stage, stage \in failAt).files,
                    Dec(stage), failAt)

\* Database.removeFromDatabasesList: the first item of that name goes
RECURSIVE removeFromDatabasesList(_, _, _)
removeFromDatabasesList(items, records, name) ==
    IF items = <<>> THEN <<>>
    ELSE IF records[Head(items)].name = name THEN Tail(items)
    ELSE <<Head(items)>> \o removeFromDatabasesList(Tail(items), records, name)

-----------------------------------------------------------------------------
(* The registry's records, the requests in flight and the goroutines the   *)
(* requests and the monitor start.                                         *)

\* Databases.CreateDatabaseAndInitialize: the record and the file it makes
CreateDatabaseAndInitialize(name, stage) ==
    [r |-> Record(name, stage,
                  CASE stage = MemoryStage -> MemoryPath(name)
                    [] stage = LocalStage -> LocalPath(name)
                    [] OTHER -> RemotePath(name)),
     db |-> EmptyDb]

\* the stages at which a step of a loop fails, if any
FailAt == {{}} \cup {{s} : s \in AllStages}

Kinds == {"promote", "demote", "sync"}
NoTasks == [id \in RecIds |-> [k \in Kinds |-> 0]]
CallIds == 1..MaxCalls
\* stage: the stage GetConnectionString read for the call, 0 before it
NoRequest == [id |-> 0, query |-> [verb |-> "", table |-> ""], via |-> "", stage |-> 0]
NoRequests == [c \in CallIds |-> NoRequest]

Range(s) == {s[i] : i \in 1..Len(s)}
\* a go statement that starts nothing
SpawnNothing(t, id, kind) == t

\* go f(database): one more goroutine of the kind on the record
Spawn(t, id, kind) == [t EXCEPT ![id][kind] = @ + 1]
Done(t, id, kind) == [t EXCEPT ![id][kind] = @ - 1]

\* what the last step of the registry or the stage manager was
StageCall(op, ret, id, before, target) ==
    [op |-> op, ret |-> ret, id |-> id, before |-> before, target |-> target]

\* Databases.FindByName: the first record of that name
FindByName(items, records, name) ==
    LET found == {i \in 1..Len(items) : records[items[i]].name = name} IN
    IF found = {} THEN 0
    ELSE items[CHOOSE i \in found : \A j \in found : i <= j]

\* a handleAccess whose increment starts from a count read before another
\* request's increment was written
handleAccessStale(id, query, via, max) ==
    /\ FindByName(dbs, rec, rec[id].name) = id
    /\ rec[id].requestCount < max
    /\ \E c \in CallIds :
         /\ calls[c] = NoRequest
         /\ \A x \in CallIds : x < c => calls[x] # NoRequest
         /\ calls' = [calls EXCEPT ![c] = [id |-> id, query |-> query, via |-> via,
                                           stage |-> 0]]
    /\ \E read \in {rec[id].requestCount - 1, rec[id].requestCount} :
         /\ read >= 0
         /\ rec' = [rec EXCEPT ![id].requestCount = read + 1, ![id].cold = FALSE]
    /\ last' = StageCall("handleAccess", "OK", id, NoRecord, 0)
    /\ UNCHANGED <<build, dbs, store, tasks, creating>>
    /\ UNCHANGED notStages

\* Database.Query and Database.Execute up to the statement: handleAccess
\* counts the request and stamps the access under the record's lock
\* the run sends requests while the record's count is below max
handleAccessUpTo(id, query, via, max) ==
    /\ FindByName(dbs, rec, rec[id].name) = id
    /\ rec[id].requestCount < max
    /\ \E c \in CallIds :
         /\ calls[c] = NoRequest
         /\ \A x \in CallIds : x < c => calls[x] # NoRequest
         /\ calls' = [calls EXCEPT ![c] = [id |-> id, query |-> query, via |-> via,
                                           stage |-> 0]]
    /\ rec' = [rec EXCEPT ![id].requestCount = @ + 1, ![id].cold = FALSE]
    /\ last' = StageCall("handleAccess", "OK", id, NoRecord, 0)
    /\ UNCHANGED <<build, dbs, store, tasks, creating>>
    /\ UNCHANGED notStages

handleAccess(id, query, via) == handleAccessUpTo(id, query, via, MaxCount)

\* the rest of Query and Execute: the statement on the file of the record's
\* stage, then the threshold check and the goroutines, without the lock
\* the run lets fewer than pending goroutines of a kind wait on the record
StatementUpTo(c, ioFails, pending) ==
    LET id == calls[c].id
        r == rec[id]
        q == calls[c].query
        e == Exec(store[r.name][r.stage], q)
        promote == AutoStageMovement /\ r.requestCount >= RequestCountThreshold
        sync == calls[c].via = "Execute" /\ AutoSyncEnabled /\ IsWriteOperation(q)
        t1 == IF promote THEN Spawn(tasks, id, "promote") ELSE tasks
        t2 == IF sync THEN Spawn(t1, id, "sync") ELSE t1
    IN
    /\ calls[c] # NoRequest
    /\ calls' = [calls EXCEPT ![c] = NoRequest]
    /\ IF ioFails \/ e.err # "OK"
       THEN /\ last' = StageCall(calls[c].via, "error", id, NoRecord, 0)
            /\ UNCHANGED <<store, tasks>>
       ELSE /\ \A t \in Tables : e.db.rows[t] <= MaxRows
            /\ promote => tasks[id]["promote"] < pending
            /\ sync => tasks[id]["sync"] < pending
            /\ store' = [store EXCEPT ![r.name][r.stage] = e.db]
            /\ tasks' = t2
            /\ last' = StageCall(calls[c].via, "OK", id, NoRecord, 0)
    /\ UNCHANGED <<build, rec, dbs, creating>>
    /\ UNCHANGED notStages

Statement(c, ioFails) == StatementUpTo(c, ioFails, MaxPending)

\* Query and Execute after handleAccess, step by step: GetConnectionString
\* reads database.Stage, the record's lock not held
GetConnectionString(c) ==
    /\ calls[c] # NoRequest
    /\ calls[c].stage = 0
    /\ calls' = [calls EXCEPT ![c].stage = rec[calls[c].id].stage]
    /\ last' = StageCall("GetConnectionString", "OK", calls[c].id, NoRecord,
                         rec[calls[c].id].stage)
    /\ UNCHANGED <<build, rec, dbs, store, tasks, creating>>
    /\ UNCHANGED notStages

\* what a statement was, where it ran and what it left in the file
ExecCall(request, ret, db) ==
    [op |-> request.via, ret |-> ret, id |-> request.id, query |-> request.query,
     stage |-> request.stage, written |-> Content(db)]

\* sql.Open on the connection string read, the statement, then the
\* threshold check and the goroutines
connectionExec(c, ioFails) ==
    LET id == calls[c].id
        r == rec[id]
        q == calls[c].query
        e == Exec(store[r.name][calls[c].stage], q)
        promote == AutoStageMovement /\ r.requestCount >= RequestCountThreshold
        sync == calls[c].via = "Execute" /\ AutoSyncEnabled /\ IsWriteOperation(q)
        t1 == IF promote THEN Spawn(tasks, id, "promote") ELSE tasks
        t2 == IF sync THEN Spawn(t1, id, "sync") ELSE t1
    IN
    /\ calls[c] # NoRequest
    /\ calls[c].stage # 0
    /\ calls' = [calls EXCEPT ![c] = NoRequest]
    /\ IF ioFails \/ e.err # "OK"
       THEN /\ last' = ExecCall(calls[c], "error", store[r.name][calls[c].stage])
            /\ UNCHANGED <<store, tasks>>
       ELSE /\ \A t \in Tables : e.db.rows[t] <= MaxRows
            /\ promote => tasks[id]["promote"] < MaxPending
            /\ sync => tasks[id]["sync"] < MaxPending
            /\ store' = [store EXCEPT ![r.name][calls[c].stage] = e.db]
            /\ tasks' = t2
            /\ last' = ExecCall(calls[c], "OK", e.db)
    /\ UNCHANGED <<build, rec, dbs, creating>>
    /\ UNCHANGED notStages

\* a promotion that goes on to MoveToStage whatever the probe of the source
\* answered
promoteUnprobed(id, fail) ==
    LET r == rec[id]
        targetStage == IF build = "newer" THEN GetNextCloserStage(build, r.stage)
                       ELSE r.stage - 1
        m == MoveToStage(build, SetRequestCount(r, 0), store[r.name], targetStage,
                         IF fail = "probe" THEN "none" ELSE fail)
    IN
    /\ tasks[id]["promote"] > 0
    /\ tasks' = Done(tasks, id, "promote")
    /\ IF (IF build = "newer" THEN IsClosestStage(build, r.stage) \/ targetStage = 0
           ELSE r.stage <= 1)
       THEN /\ last' = StageCall("PromoteToCloserStage", "none", id, NoRecord, 0)
            /\ UNCHANGED <<rec, store>>
       ELSE /\ rec' = [rec EXCEPT ![id] = m.r]
            /\ store' = [store EXCEPT ![r.name] = m.files]
            /\ last' = StageCall("MoveToStage", m.err, id, r, targetStage)
    /\ UNCHANGED <<build, dbs, calls, creating>>
    /\ UNCHANGED notStages

\* go stages.PromoteToCloserStage(database)
PromoteToCloserStage(id, fail) ==
    LET r == rec[id]
        targetStage == IF build = "newer" THEN GetNextCloserStage(build, r.stage)
                       ELSE r.stage - 1
        m == MoveToStage(build, SetRequestCount(r, 0), store[r.name], targetStage, fail)
    IN
    /\ tasks[id]["promote"] > 0
    /\ tasks' = Done(tasks, id, "promote")
    /\ IF (IF build = "newer" THEN IsClosestStage(build, r.stage) \/ targetStage = 0
           ELSE r.stage <= 1)
       THEN /\ last' = StageCall("PromoteToCloserStage", "none", id, NoRecord, 0)
            /\ UNCHANGED <<rec, store>>
       ELSE IF build = "newer" /\ fail = "probe"
       THEN /\ rec' = [rec EXCEPT ![id] = SetRequestCount(r, 0)]
            /\ last' = StageCall("PromoteToCloserStage", "none", id, NoRecord, 0)
            /\ UNCHANGED store
       ELSE /\ rec' = [rec EXCEPT ![id] = m.r]
            /\ store' = [store EXCEPT ![r.name] = m.files]
            /\ last' = StageCall("MoveToStage", m.err, id, r, targetStage)
    /\ UNCHANGED <<build, dbs, calls, creating>>
    /\ UNCHANGED notStages

\* the statuses of an answer
StatusNotFound == "404 Not Found"
StatusInternalServerError == "500 Internal Server Error"
Operations == {"database-query", "database-execute"}

\* the database-query and database-execute handlers when FindByName
\* returns an error: the answer, and nothing else
databaseNotFound(name, operation) ==
    /\ FindByName(dbs, rec, name) = 0
    /\ last' = StageCall(operation, StatusInternalServerError, 0, NoRecord, 0)
    /\ UNCHANGED stageVars
    /\ UNCHANGED notStages

\* the call of utils.IsWriteOperation returns
Classify ==
    /\ text.state = "called"
    /\ text' = [text EXCEPT !.state = "returned", !.write = IsWriteText(text.query)]
    /\ UNCHANGED <<rvfsVars, diskVars, stageVars, handler, monitor, moving, last>>

\* no MoveToStage call is under way
NoMove == [id |-> 0, original |-> 0, inside |-> {}]

\* PromoteToCloserStage, step by step, for what a thread that does not take
\* the record's lock (Query and Execute after handleAccess, the monitor's
\* GetStage) can see of the record.  The first step runs up to the copy:
\* the lock taken, the count reset, and in the older build syncDown's
\* database.SetStage(targetStage), which comes before the copy.
promoteBegin(id) ==
    LET r == rec[id]
        targetStage == IF build = "newer" THEN GetNextCloserStage(build, r.stage)
                       ELSE r.stage - 1
    IN
    /\ tasks[id]["promote"] > 0
    /\ moving = NoMove
    /\ ~(IF build = "newer" THEN IsClosestStage(build, r.stage) \/ targetStage = 0
         ELSE r.stage <= 1)
    /\ tasks' = Done(tasks, id, "promote")
    /\ rec' = [rec EXCEPT ![id] = IF build = "newer" THEN SetRequestCount(r, 0)
                                  ELSE SetStage(SetRequestCount(r, 0), targetStage)]
    /\ moving' = [id |-> id, original |-> r.stage, inside |-> {"promote"}]
    /\ last' = StageCall("PromoteToCloserStage", "none", id, NoRecord, targetStage)
    /\ UNCHANGED <<build, dbs, store, calls, creating>>
    /\ UNCHANGED <<rvfsVars, diskVars, handler, monitor, text>>

\* the second step: the copy and what follows it, up to the return
promoteEnd(fail) ==
    LET id == moving.id
        r == SetStage(rec[id], moving.original)
        targetStage == IF build = "newer" THEN GetNextCloserStage(build, r.stage)
                       ELSE r.stage - 1
        m == MoveToStage(build, r, store[r.name], targetStage, fail)
    IN
    /\ moving # NoMove
    /\ rec' = [rec EXCEPT ![id] = m.r]
    /\ store' = [store EXCEPT ![r.name] = m.files]
    /\ moving' = NoMove
    /\ last' = StageCall("MoveToStage", m.err, id, r, targetStage)
    /\ UNCHANGED <<build, dbs, tasks, calls, creating>>
    /\ UNCHANGED <<rvfsVars, diskVars, handler, monitor, text>>

\* the functions that take the record's mutex: PromoteToCloserStage,
\* demoteToFartherStage, SyncToUpperStages, Database.Delete, handleAccess
Sections == {"promote", "demote", "sync", "delete", "access"}

\* a Lock that returns although the mutex is held
lockNotTaken(id, kind) ==
    /\ id \in Range(dbs)
    /\ moving.id \in {0, id}
    /\ kind \notin moving.inside
    /\ kind \in Kinds => tasks[id][kind] > 0
    /\ moving' = [id |-> id, original |-> rec[id].stage,
                  inside |-> moving.inside \cup {kind}]
    /\ last' = StageCall("Lock", kind, id, NoRecord, 0)
    /\ UNCHANGED <<rvfsVars, diskVars, stageVars, handler, monitor, text>>

\* database.GetMutex().Lock() as the first statement of one of the
\* functions: it returns when no other holds the mutex, and the function
\* is inside its locked region from then on
mutexLock(id, kind) ==
    /\ moving.inside = {}
    /\ lockNotTaken(id, kind)

\* the function of that kind holds the mutex of record id
Holds(id, kind) == moving.id = id /\ kind \in moving.inside

\* the deferred Unlock as the function returns
mutexUnlock(kind) ==
    /\ kind \in moving.inside
    /\ moving' = IF moving.inside = {kind} THEN NoMove
                 ELSE [moving EXCEPT !.inside = @ \ {kind}]
    /\ last' = StageCall("Unlock", kind, moving.id, NoRecord, 0)
    /\ UNCHANGED <<rvfsVars, diskVars, stageVars, handler, monitor, text>>

\* the values StageTimeoutSeconds can be configured to (validate:"gt=0")
Timeouts == 1..MaxTimeout

\* the monitor before main calls SetupStagesMonitoring
NoMonitor(timeout) == [timeout |-> timeout, period |-> 0, state |-> "off"]

\* time.NewTicker(d): a ticker of period d, and a panic when d is not
\* positive, which in a goroutine ends the process
NewTicker(timeout, d) ==
    IF d <= 0 THEN [timeout |-> timeout, period |-> d, state |-> "panicked"]
    ELSE [timeout |-> timeout, period |-> d, state |-> "ticking"]

\* the goroutine of stages.SetupStageMonitor up to its loop over ticker.C;
\* StageTimeoutSeconds is an int and / is Go's integer division
StartMonitor(timeout) == NewTicker(timeout, timeout \div 2)

SetupStageMonitor ==
    /\ AutoStageMovement
    /\ monitor.state = "off"
    /\ monitor' = StartMonitor(monitor.timeout)
    /\ last' = StageCall("SetupStageMonitor", "OK", 0, NoRecord, 0)
    /\ UNCHANGED <<rvfsVars, diskVars, stageVars, handler, moving, text>>

\* the record's inactivity reaches StageTimeoutSeconds
TimePasses(id) ==
    /\ id \in Range(dbs)
    /\ ~rec[id].cold
    /\ rec' = [rec EXCEPT ![id].cold = TRUE]
    /\ last' = StageCall("TimePasses", "OK", id, NoRecord, 0)
    /\ UNCHANGED <<build, dbs, store, tasks, calls, creating>>
    /\ UNCHANGED notStages

\* a demotion that does not look at the time of the last access
demoteAlways(r) == TRUE
\* timeSinceAccess >= timeoutDuration, read under the record's lock
shouldDemote(r) == r.cold

\* one tick of the monitor: stages.MonitorAndDemoteDatabases
MonitorAndDemoteDatabases ==
    LET due == {id \in Range(dbs) : rec[id].stage < 3 /\ shouldDemote(rec[id])} IN
    /\ AutoStageMovement
    /\ monitor.state = "ticking"
    /\ due # {}
    /\ \A id \in due : tasks[id]["demote"] < MaxPending
    /\ tasks' = [id \in RecIds |-> IF id \in due THEN Spawn(tasks, id, "demote")[id]
                                  ELSE tasks[id]]
    /\ last' = StageCall("MonitorAndDemoteDatabases", "OK", 0, NoRecord, 0)
    /\ UNCHANGED <<build, rec, dbs, store, calls, creating>>
    /\ UNCHANGED notStages

\* go demoteToFartherStage(database)
demoteToFartherStage(id, failAt, fail) ==
    LET r == rec[id]
        targetStage == IF build = "newer" THEN GetNextFartherStage(build, r.stage)
                       ELSE r.stage + 1
        synced == IF build = "newer" /\ AutoSyncEnabled
                  THEN syncBeforeDemotion(build, r, store[r.name], targetStage, failAt)
                  ELSE store[r.name]
        m == MoveToStage(build, SetRequestCount(r, 0), synced, targetStage, fail)
    IN
    /\ tasks[id]["demote"] > 0
    /\ tasks' = Done(tasks, id, "demote")
    /\ IF \/ (IF build = "newer" THEN IsFarthestStage(build, r.stage) ELSE r.stage >= 3)
          \/ ~shouldDemote(r)
          \/ targetStage = 0
       THEN /\ last' = StageCall("demoteToFartherStage", "none", id, NoRecord, 0)
            /\ UNCHANGED <<rec, store>>
       ELSE /\ rec' = [rec EXCEPT ![id] = m.r]
            /\ store' = [store EXCEPT ![r.name] = m.files]
            /\ last' = StageCall("MoveToStage", m.err, id, r, targetStage)
    /\ UNCHANGED <<build, dbs, calls, creating>>
    /\ UNCHANGED notStages

\* go stages.SyncToUpperStages(database); enabled: AutoSyncEnabled as the
\* call finds it. The older build sets the record's stage and path to
\* those of the stage it started at after each copy that succeeds.
syncToUpperStagesCall(id, failAt, enabled) ==
    LET r == rec[id]
        first == IF build = "newer" THEN GetNextFartherStage(build, r.stage)
                 ELSE IF r.stage < 3 THEN r.stage + 1 ELSE 0
        s == syncUpper(build, r, store[r.name], first, failAt)
        copied == /\ first # 0
                  /\ syncToStage(build, r, store[r.name], first,
                                 IF first \in failAt THEN "copy" ELSE "none").err = "OK"
        originalStage == r.stage
    IN
    /\ tasks[id]["sync"] > 0
    /\ tasks' = Done(tasks, id, "sync")
    /\ IF ~enabled
       THEN /\ last' = StageCall("SyncToUpperStages", "off", id, r, 0)
            /\ UNCHANGED <<rec, store>>
       ELSE /\ store' = [store EXCEPT ![r.name] = s.files]
            /\ rec' = [rec EXCEPT ![id] =
                         IF build = "older" /\ copied
                         THEN updateDatabasePath(build, SetStage(r, originalStage),
                                                 originalStage)
                         ELSE r]
            /\ last' = StageCall("SyncToUpperStages", s.err, id, r, 0)
    /\ UNCHANGED <<build, dbs, calls, creating>>
    /\ UNCHANGED notStages

SyncToUpperStages(id, failAt) == syncToUpperStagesCall(id, failAt, AutoSyncEnabled)

\* Database.Delete, as the delete handler calls it on the record it found
Delete(id, failAt) ==
    LET r == rec[id] IN
    /\ FindByName(dbs, rec, r.name) = id
    /\ store' = [store EXCEPT ![r.name] =
                    removeDown(build, r, store[r.name], PersistenceStage, failAt)]
    /\ dbs' = removeFromDatabasesList(dbs, rec, r.name)
    /\ last' = StageCall("Delete", "OK", id, r, 0)
    /\ UNCHANGED <<build, rec, tasks, calls, creating>>
    /\ UNCHANGED notStages

-----------------------------------------------------------------------------
(* The registry: the listing of the remote stage that fills it when the    *)
(* service starts, and the create requests, each in its own goroutine.     *)

\* the keys a bucket may hold when the service starts, in the order ListFiles
\* returns them
Keys == <<[base |-> "u", suffix |-> ""],
          [base |-> "u", suffix |-> ".db"],
          [base |-> "u", suffix |-> ".db-journal"]>>

\* remotevfs.ListDatabases: the name a key is listed under, "" when skipped
ListedName(key) ==
    IF key.suffix = ".db-journal" THEN ""
    ELSE IF key.suffix = ".db" THEN key.base
    ELSE IF key.suffix = "" THEN key.base
    ELSE ""

\* the key as a path
KeyPath(key) == IF key.suffix = "" THEN <<key.base>> ELSE <<key.base, key.suffix>>

\* the records ListDatabases makes of the keys present, in order
RECURSIVE ListDatabases(_, _)
ListDatabases(present, i) ==
    IF i > Len(Keys) THEN <<>>
    ELSE IF i \in present /\ ListedName(Keys[i]) # ""
    THEN <<Record(ListedName(Keys[i]), RemoteStage, KeyPath(Keys[i]))>>
         \o ListDatabases(present, i + 1)
    ELSE ListDatabases(present, i + 1)

\* a create request: where it stands, and the Items it read for its append
CreateIds == 1..MaxCreates
NoCreate == [name |-> "", pc |-> "idle", id |-> 0, items |-> <<>>]
NoCreates == [c \in CreateIds |-> NoCreate]
CreateCall(ret, name, existed, items) ==
    [op |-> "Create", ret |-> ret, name |-> name, existed |-> existed, items |-> items]
FreeIds == {id \in RecIds : rec[id] = NoRecord}

\* the create handler up to CreateDatabaseAndInitialize: Conflict when
\* FindByName finds the name
createFind(c, name) ==
    /\ creating[c] = NoCreate
    /\ \A x \in CreateIds : x < c => creating[x] # NoCreate
    /\ IF FindByName(dbs, rec, name) # 0
       THEN /\ last' = CreateCall("Conflict", name, TRUE, dbs)
            /\ UNCHANGED creating
       ELSE /\ creating' = [creating EXCEPT ![c] = [NoCreate EXCEPT !.name = name,
                                                                   !.pc = "found"]]
            /\ last' = CreateCall("pending", name, FALSE, dbs)
    /\ UNCHANGED <<build, rec, dbs, store, tasks, calls>>
    /\ UNCHANGED notStages

\* CreateDatabaseAndInitialize up to the append: the record, the file, and
\* the read of databases.Items
createInitialize(c, ioFails) ==
    LET name == creating[c].name
        made == CreateDatabaseAndInitialize(name, DefaultDatabaseCreationStage)
        file == store[name][DefaultDatabaseCreationStage]
    IN
    /\ creating[c].pc = "found"
    /\ IF ioFails
       THEN /\ creating' = [creating EXCEPT ![c] = NoCreate]
            /\ last' = CreateCall("error", name, FindByName(dbs, rec, name) # 0, dbs)
            /\ UNCHANGED <<rec, store>>
       ELSE /\ FreeIds # {}
            /\ LET id == CHOOSE x \in FreeIds : \A y \in FreeIds : x <= y IN
               /\ rec' = [rec EXCEPT ![id] = made.r]
               /\ creating' = [creating EXCEPT ![c].pc = "read", ![c].id = id,
                                                ![c].items = dbs]
            /\ store' = [store EXCEPT ![name][DefaultDatabaseCreationStage] =
                            IF file.exists THEN file ELSE made.db]
            /\ last' = CreateCall("pending", name, FindByName(dbs, rec, name) # 0, dbs)
    /\ UNCHANGED <<build, dbs, tasks, calls>>
    /\ UNCHANGED notStages

\* databases.Items = append(databases.Items, database), and the response
createAppend(c) ==
    /\ creating[c].pc = "read"
    /\ dbs' = Append(creating[c].items, creating[c].id)
    /\ creating' = [creating EXCEPT ![c] = NoCreate]
    /\ last' = CreateCall("OK", creating[c].name,
                          FindByName(dbs, rec, creating[c].name) # 0, dbs)
    /\ UNCHANGED <<build, rec, store, tasks, calls>>
    /\ UNCHANGED notStages


-----------------------------------------------------------------------------
(* The database-query handler: the jobs and responses channels, the        *)
(* workers that run database.Query, and the results slice.                 *)

numWorkers == MaxWorkers

\* the statements a request carries: one that succeeds, one on a table the
\* database does not have, one the engine cannot parse
QueryTexts == {[verb |-> "SELECT", table |-> "t"],
               [verb |-> "SELECT", table |-> "x"],
               [verb |-> "SELEC", table |-> "t"]}

NoResult == [success |-> FALSE, data |-> 0, error |-> "unset"]
\* connection.Query(query) and QueryResultToMaps on a file
QueryOutcome(d, q) ==
    IF q.verb \notin Verbs THEN [success |-> FALSE, data |-> 0, error |-> "syntax error"]
    ELSE IF Exec(d, q).err # "OK"
    THEN [success |-> FALSE, data |-> 0, error |-> Exec(d, q).err]
    ELSE [success |-> TRUE, data |-> d.rows[q.table], error |-> ""]

NoWorker == [pc |-> "range", index |-> 0]
NoHandler ==
    [pc |-> "idle", id |-> 0, queries |-> <<>>, workers |-> <<>>, jobs |-> <<>>,
     closed |-> FALSE, responses |-> <<>>, results |-> <<>>, i |-> 0, arrived |-> <<>>]
\* the handler up to the loop that sends the jobs: the record found, the
\* results slice made and min(numWorkers, n) workers started
StartHandler(id, queries) ==
    [NoHandler EXCEPT
        !.pc = "send", !.id = id, !.queries = queries,
        !.results = [k \in 1..Len(queries) |-> NoResult],
        !.workers = [w \in 1..Min(numWorkers, Len(queries)) |-> NoWorker]]

\* results[resp.index] = QueryResult{...} with the slot arrival order picks
StoreInArrivalOrder(results, resp, i) ==
    [results EXCEPT ![i + 1] = resp.result]

\* results[resp.index] = QueryResult{...}
StoreResult(results, resp, i) ==
    [results EXCEPT ![resp.index] = resp.result]

\* jobs <- queryJob{index: i, query: query}
sendJob ==
    /\ handler.pc = "send"
    /\ handler.i < Len(handler.queries)
    /\ handler' = [handler EXCEPT !.i = @ + 1, !.jobs = Append(@, handler.i + 1)]
    /\ UNCHANGED <<rec, tasks, last>>
    /\ UNCHANGED notHandler

\* close(jobs)
closeJobs ==
    /\ handler.pc = "send"
    /\ handler.i = Len(handler.queries)
    /\ handler' = [handler EXCEPT !.pc = "collect", !.closed = TRUE, !.i = 0]
    /\ UNCHANGED <<rec, tasks, last>>
    /\ UNCHANGED notHandler

\* a worker's "for job := range jobs" receives a job
workerReceive(w) ==
    /\ w \in DOMAIN handler.workers
    /\ handler.workers[w].pc = "range"
    /\ handler.jobs # <<>>
    /\ handler' = [handler EXCEPT !.jobs = Tail(@),
                                  !.workers[w] = [pc |-> "query", index |-> Head(handler.jobs)]]
    /\ UNCHANGED <<rec, tasks, last>>
    /\ UNCHANGED notHandler

\* the worker's database.Query(job.query) and its send on responses; the
\* request is counted up to MaxCount and a promotion is started once
workerQuery(w) ==
    LET id == handler.id
        r == rec[id]
        k == handler.workers[w].index
        out == QueryOutcome(store[r.name][r.stage], handler.queries[k])
        counted == Min(r.requestCount + 1, MaxCount)
    IN
    /\ w \in DOMAIN handler.workers
    /\ handler.workers[w].pc = "query"
    /\ handler' = [handler EXCEPT !.workers[w] = NoWorker,
                                  !.responses = Append(@, [index |-> k, result |-> out])]
    /\ rec' = [rec EXCEPT ![id].requestCount = counted, ![id].cold = FALSE]
    /\ tasks' = IF out.success /\ AutoStageMovement /\ counted >= RequestCountThreshold
                   /\ tasks[id]["promote"] < MaxPending
                THEN Spawn(tasks, id, "promote") ELSE tasks
    /\ UNCHANGED last
    /\ UNCHANGED notHandler

\* the worker's range loop ends: jobs is closed and empty
workerExit(w) ==
    /\ w \in DOMAIN handler.workers
    /\ handler.workers[w].pc = "range"
    /\ handler.jobs = <<>>
    /\ handler.closed
    /\ handler' = [handler EXCEPT !.workers[w].pc = "exit"]
    /\ UNCHANGED <<rec, tasks, last>>
    /\ UNCHANGED notHandler

\* resp := <-responses and the store into results
collect ==
    /\ handler.pc = "collect"
    /\ handler.i < Len(handler.queries)
    /\ handler.responses # <<>>
    /\ handler' = [handler EXCEPT
                     !.responses = Tail(@),
                     !.results = StoreResult(@, Head(handler.responses), handler.i),
                     !.arrived = Append(@, Head(handler.responses).index),
                     !.i = @ + 1]
    /\ UNCHANGED <<rec, tasks, last>>
    /\ UNCHANGED notHandler

\* response.Body.Results = results; return
respond ==
    /\ handler.pc = "collect"
    /\ handler.i = Len(handler.queries)
    /\ handler' = [handler EXCEPT !.pc = "done"]
    /\ UNCHANGED <<rec, tasks, last>>
    /\ UNCHANGED notHandler


-----------------------------------------------------------------------------
(* Specifications.                                                         *)

\* no diskFile is open
IdleDisk ==
    /\ disk = [h \in Handles |-> NoDisk]
    /\ fileLocks = NoEntry
    /\ lockStates = [e \in Entries |-> NoLockState]

\* an empty registry
IdleStages ==
    /\ build = "newer"
    /\ rec = [id \in RecIds |-> NoRecord]
    /\ dbs = <<>>
    /\ store = NoStore
    /\ tasks = NoTasks
    /\ calls = NoRequests
    /\ creating = NoCreates
    /\ handler = NoHandler
    /\ monitor = NoMonitor(MaxTimeout)
    /\ moving = NoMove
    /\ text = NoText

\* no r2File is open
IdleRVFS ==
    /\ span = MaxSectors
    /\ obj = NoObject
    /\ f = NoHandle
    /\ tracked = NoWrite
    /\ peer = NoHandle

InitRVFS ==
    /\ span = MaxSectors
    /\ obj \in InitialObjects(MaxSectors)
    /\ f = NoHandle
    /\ last = NoCall
    /\ tracked = NoWrite
    /\ peer = NoHandle
    /\ IdleDisk
    /\ IdleStages

NextRVFS ==
    \/ Open
    \/ ReadAt
    \/ WriteAt
    \/ Truncate
    \/ Sync

SpecRVFS == InitRVFS /\ [][NextRVFS]_vars

\* the calls on one handle with each ReadAt and Truncate kept in last; the
\* key holds nothing, or an object that ends in or at the end of the last
\* sector, and stays as Open found it
InitSector ==
    /\ InitRVFS
    /\ obj.exists => Len(obj.data) >= MaxSize - 1

NextSector ==
    \/ Open
    \/ ReadAtStep(TRUE)
    \/ WriteAt
    \/ TruncateStep(TRUE)

SpecSector == InitSector /\ [][NextSector]_vars

\* writeback: reads, writes and Syncs on one handle, a write followed until
\* a PUT has stored it
NextWriteback ==
    \/ Open
    \/ ReadAt
    \/ WriteAt
    \/ SyncStep(TRUE)

SpecWriteback == InitRVFS /\ [][NextWriteback]_vars

\* bytes a WriteAt is given when they are to be told from the object's
NewByte == {2}

\* the writes on a handle, each WriteAt kept in last, and a Truncate where
\* the handle is read-only
NextWrite ==
    \/ Open
    \/ WriteAtStep(TRUE, NewByte)
    \/ f.readOnly /\ TruncateStep(TRUE)
    \/ Sync

SpecWrite == InitRVFS /\ [][NextWrite]_vars

\* a handle the engine opens, locks, writes to and closes, each Open kept
\* in last
NextClose ==
    \/ OpenStep(TRUE)
    \/ WriteAt
    \/ \E lock \in Requested :
         /\ lock > LOCK_SHARED => f.lock >= LOCK_SHARED
         /\ Lock(lock)
    \/ \E lock \in Released : Unlock(lock)
    \/ Close

SpecClose == InitRVFS /\ [][NextClose]_vars

\* the caches an open handle on a file of span sectors can hold after
\* writes, a Sync and more writes and reads: any sectors, each dirty (and
\* then in dirtySectors) or clean, in any order of last use
Orders(K) == {o \in [1..Cardinality(K) -> K] : \A i, j \in DOMAIN o : o[i] = o[j] => i = j}
Cached(K, D, o) ==
    [NoHandle EXCEPT !.status = "open", !.size = MaxSize,
        !.cache = [k \in K |-> Sector(Fill(remoteSectorSize, 1), k \in D)],
        !.lru = o,
        !.dirtySectors = [k \in D |-> Alias]]
Caches ==
    UNION {{Cached(K, D, o) : D \in SUBSET K, o \in Orders(K)} : K \in SUBSET Sectors}

\* eviction: getSector called over and over on such a handle
InitEvict ==
    /\ span = MaxSectors + 2
    /\ obj = Object(Fill(MaxSize, 1))
    /\ f \in Caches
    /\ last = NoCall
    /\ tracked = NoWrite
    /\ peer = NoHandle
    /\ IdleDisk
    /\ IdleStages

NextEvict == \E sectorNum \in Sectors, fails \in BOOLEAN : getSectorCall(sectorNum, fails)

SpecEvict == InitEvict /\ [][NextEvict]_vars

\* the sector cache alone: a handle that reads and writes and never syncs
InitCache ==
    /\ span = MaxSectors + 1
    /\ obj \in InitialObjects(MaxSectors + 1)
    /\ f = NoHandle
    /\ last = NoCall
    /\ tracked = NoWrite
    /\ peer = NoHandle
    /\ IdleDisk
    /\ IdleStages

NextCache ==
    \/ Open
    \/ ReadAt
    \/ WriteAt

SpecCache == InitCache /\ [][NextCache]_vars

\* the emulated locks: a run locks one R-VFS handle, or the Local-VFS
\* handles of one path
InitLock ==
    /\ \/ /\ IdleRVFS
          /\ IdleDisk
       \/ /\ span = MaxSectors
          /\ obj = NoObject
          /\ tracked = NoWrite
          /\ peer = NoHandle
          /\ \E readOnly \in BOOLEAN :
               f = [NoHandle EXCEPT !.status = "open", !.readOnly = readOnly]
          /\ IdleDisk
    /\ last = NoCall
    /\ IdleStages

NextLock ==
    \/ \E lock \in LockLevel : Lock(lock)
    \/ \E lock \in LockLevel : Unlock(lock)
    \/ \E h \in Handles : diskOpen(h)
    \/ \E h \in Handles, lock \in LockLevel : diskLock(h, lock)
    \/ \E h \in Handles : diskLockLocked(h)
    \/ \E h \in Handles : diskSpin(h)
    \/ \E h \in Handles, lock \in LockLevel : diskUnlock(h, lock)
    \/ \E h \in Handles : diskUnlockLocked(h)
    \/ \E h \in Handles : diskClose(h)
    \/ \E h \in Handles : diskCleanup(h)

SpecLock == InitLock /\ [][NextLock]_vars

\* the stage manager: one database, created at the default stage, and the
\* requests, the goroutines and the monitor working on its record
InitStages ==
    /\ build \in Builds
    /\ rec = [id \in RecIds |->
                IF id = 1 THEN CreateDatabaseAndInitialize("u", DefaultDatabaseCreationStage).r
                ELSE NoRecord]
    /\ dbs = <<1>>
    /\ store = [NoStore EXCEPT !["u"][DefaultDatabaseCreationStage] =
                    CreateDatabaseAndInitialize("u", DefaultDatabaseCreationStage).db]
    /\ tasks = NoTasks
    /\ calls = NoRequests
    /\ creating = NoCreates
    /\ handler = NoHandler
    /\ monitor = StartMonitor(MaxTimeout)
    /\ moving = NoMove
    /\ text = NoText
    /\ last = NoCall
    /\ IdleRVFS
    /\ IdleDisk

NextStages ==
    \/ \E id \in RecIds, q \in Queries : handleAccess(id, q, "Execute")
    \/ \E id \in RecIds, q \in Queries : q.verb = "SELECT" /\ handleAccess(id, q, "Query")
    \/ \E c \in CallIds, ioFails \in BOOLEAN : Statement(c, ioFails)
    \/ \E id \in RecIds, fail \in Failures \cup {"probe"} : PromoteToCloserStage(id, fail)
    \/ \E id \in RecIds : TimePasses(id)
    \/ MonitorAndDemoteDatabases
    \/ \E id \in RecIds, failAt \in FailAt, fail \in Failures :
         demoteToFartherStage(id, failAt, fail)
    \/ \E id \in RecIds, failAt \in FailAt : SyncToUpperStages(id, failAt)
    \/ \E id \in RecIds, failAt \in FailAt : Delete(id, failAt)

SpecStages == InitStages /\ [][NextStages]_vars

\* the registry: SetupDatabases lists the remote stage, then create and
\* delete requests arrive
InitRegistry ==
    /\ build \in Builds
    /\ \E present \in SUBSET (1..Len(Keys)) :
         LET listed == ListDatabases(present, 1) IN
         /\ rec = [id \in RecIds |-> IF id <= Len(listed) THEN listed[id] ELSE NoRecord]
         /\ dbs = [i \in 1..Len(listed) |-> i]
         /\ store = [n \in Names |-> [st \in AllStages |->
                        IF st = RemoteStage
                           /\ \E i \in present : Keys[i].suffix = ".db" /\ Keys[i].base = n
                        THEN EmptyDb ELSE NoDb]]
    /\ tasks = NoTasks
    /\ calls = NoRequests
    /\ creating = NoCreates
    /\ handler = NoHandler
    /\ monitor = NoMonitor(MaxTimeout)
    /\ moving = NoMove
    /\ text = NoText
    /\ last = NoCall
    /\ IdleRVFS
    /\ IdleDisk

NextRegistry ==
    \/ \E c \in CreateIds, name \in Names : createFind(c, name)
    \/ \E c \in CreateIds, ioFails \in BOOLEAN : createInitialize(c, ioFails)
    \/ \E c \in CreateIds : createAppend(c)
    \/ \E id \in RecIds, failAt \in FailAt : Delete(id, failAt)

\* promotion: the requests on one database and the goroutines they start,
\* every I/O call succeeding, every goroutine started run in the end, and no
\* StageTimeoutSeconds of inactivity
NextPromotion ==
    \/ \E id \in RecIds, q \in Queries : handleAccess(id, q, "Execute")
    \/ \E id \in RecIds, q \in Queries : q.verb = "SELECT" /\ handleAccess(id, q, "Query")
    \/ \E c \in CallIds : Statement(c, FALSE)
    \/ \E id \in RecIds : PromoteToCloserStage(id, "none")
    \/ \E id \in RecIds : SyncToUpperStages(id, {})

SpecPromotion ==
    /\ InitStages
    /\ [][NextPromotion]_vars
    /\ WF_vars(\E id \in RecIds : PromoteToCloserStage(id, "none"))
    /\ WF_vars(\E id \in RecIds : SyncToUpperStages(id, {}))
    /\ WF_vars(\E c \in CallIds : Statement(c, FALSE))

SpecRegistry == InitRegistry /\ [][NextRegistry]_vars

\* a promotion seen from the threads that read the record without its
\* lock: handleAccess waits for the lock a promotion holds, the statement
\* of a call that is past handleAccess does not
NextMove ==
    \/ \E id \in RecIds, q \in Queries : moving.id # id /\ handleAccess(id, q, "Execute")
    \/ \E id \in RecIds, q \in Queries :
         moving.id # id /\ q.verb = "SELECT" /\ handleAccess(id, q, "Query")
    \/ \E c \in CallIds : Statement(c, FALSE)
    \/ \E id \in RecIds : promoteBegin(id)
    \/ \E fail \in {"none", "target", "copy"} : promoteEnd(fail)
    \/ \E id \in RecIds : moving.id # id /\ SyncToUpperStages(id, {})

SpecMove == InitStages /\ [][NextMove]_vars

\* two r2File handles on one key, each locked and unlocked as the engine
\* does it: SHARED first, then RESERVED or EXCLUSIVE, and back
NextPeers ==
    \/ Open
    \/ peerOpen
    \/ \E lock \in Requested :
         /\ lock > LOCK_SHARED => f.lock >= LOCK_SHARED
         /\ Lock(lock)
    \/ \E lock \in Released : Unlock(lock)
    \/ \E lock \in Requested :
         /\ lock > LOCK_SHARED => peer.lock >= LOCK_SHARED
         /\ peerLock(lock)
    \/ \E lock \in Released : peerUnlock(lock)

SpecPeers == InitRVFS /\ [][NextPeers]_vars

\* a burst of requests on a record: each is counted and, past the
\* threshold, starts a promotion, and the promotions run when they get
\* the record's mutex
NextBurst ==
    \/ \E id \in RecIds, q \in Queries :
         handleAccessUpTo(id, q, IF q.verb = "SELECT" THEN "Query" ELSE "Execute",
                          MaxBurst)
    \/ \E c \in CallIds, ioFails \in BOOLEAN : StatementUpTo(c, ioFails, BurstPending)
    \/ \E id \in RecIds, fail \in {"none", "copy"} : PromoteToCloserStage(id, fail)
    \/ \E id \in RecIds : SyncToUpperStages(id, {})

SpecBurst == InitStages /\ [][NextBurst]_vars

\* the record's mutex: each of the functions that take it runs as a Lock,
\* its body and the deferred Unlock, beside the statements and the monitor,
\* which do not take it; a function that holds the mutex runs on to its
\* Unlock
NextMutex ==
    \/ \E id \in RecIds, kind \in Sections : mutexLock(id, kind)
    \/ \E kind \in Sections : mutexUnlock(kind)
    \/ \E id \in RecIds, q \in Queries :
         Holds(id, "access") /\ handleAccess(id, q, "Execute")
    \/ \E c \in CallIds, ioFails \in BOOLEAN : Statement(c, ioFails)
    \/ \E id \in RecIds, fail \in {"none", "copy"} :
         Holds(id, "promote") /\ PromoteToCloserStage(id, fail)
    \/ \E id \in RecIds : TimePasses(id)
    \/ MonitorAndDemoteDatabases
    \/ \E id \in RecIds : Holds(id, "demote") /\ demoteToFartherStage(id, {}, "none")
    \/ \E id \in RecIds : Holds(id, "sync") /\ SyncToUpperStages(id, {})
    \/ \E id \in RecIds : Holds(id, "delete") /\ Delete(id, {})

SpecMutex ==
    /\ InitStages
    /\ [][NextMutex]_vars
    /\ WF_vars(\E kind \in Sections : mutexUnlock(kind))

\* utils.IsWriteOperation called on one query string
InitText ==
    /\ \E query \in Texts : text = [query |-> query, state |-> "called", write |-> FALSE]
    /\ build = "newer"
    /\ rec = [id \in RecIds |-> NoRecord]
    /\ dbs = <<>>
    /\ store = NoStore
    /\ tasks = NoTasks
    /\ calls = NoRequests
    /\ creating = NoCreates
    /\ handler = NoHandler
    /\ monitor = NoMonitor(MaxTimeout)
    /\ moving = NoMove
    /\ last = NoCall
    /\ IdleRVFS
    /\ IdleDisk

NextText == Classify

SpecText == InitText /\ [][NextText]_vars

\* requests that send any statement through either entry point, and
\* requests that name a database the registry does not list;
\* connection.Query runs a statement that writes as connection.Exec does
NextSync ==
    \/ \E id \in RecIds, q \in Queries : handleAccess(id, q, "Execute")
    \/ \E id \in RecIds, q \in Queries : handleAccess(id, q, "Query")
    \/ \E c \in CallIds, ioFails \in BOOLEAN : Statement(c, ioFails)
    \/ \E id \in RecIds : PromoteToCloserStage(id, "none")
    \/ \E id \in RecIds, failAt \in FailAt : SyncToUpperStages(id, failAt)
    \/ \E name \in Names, operation \in Operations : databaseNotFound(name, operation)

SpecSync == InitStages /\ [][NextSync]_vars

\* writes and the syncs they start, each sync finding auto-sync enabled or
\* not, and promotions that take the record below the farthest stage
NextUpper ==
    \/ \E id \in RecIds, q \in Queries : handleAccess(id, q, "Execute")
    \/ \E c \in CallIds, ioFails \in BOOLEAN : Statement(c, ioFails)
    \/ \E id \in RecIds : PromoteToCloserStage(id, "none")
    \/ \E id \in RecIds, failAt \in FailAt, enabled \in BOOLEAN :
         syncToUpperStagesCall(id, failAt, enabled)

SpecUpper == InitStages /\ [][NextUpper]_vars

\* demotion: the service starts with one database and any configured
\* StageTimeoutSeconds; main starts the monitor, requests promote the
\* database and inactivity demotes it, every I/O call succeeding and every
\* goroutine and every tick of a running ticker run in the end.  A panic
\* of the monitor's goroutine ends the process.
InitDemotion ==
    /\ build \in Builds
    /\ rec = [id \in RecIds |->
                IF id = 1 THEN CreateDatabaseAndInitialize("u", DefaultDatabaseCreationStage).r
                ELSE NoRecord]
    /\ dbs = <<1>>
    /\ store = [NoStore EXCEPT !["u"][DefaultDatabaseCreationStage] =
                    CreateDatabaseAndInitialize("u", DefaultDatabaseCreationStage).db]
    /\ tasks = NoTasks
    /\ calls = NoRequests
    /\ creating = NoCreates
    /\ handler = NoHandler
    /\ \E timeout \in Timeouts : monitor = NoMonitor(timeout)
    /\ moving = NoMove
    /\ text = NoText
    /\ last = NoCall
    /\ IdleRVFS
    /\ IdleDisk

Running == monitor.state # "panicked"

NextDemotion ==
    \/ SetupStageMonitor
    \/ Running /\ \E id \in RecIds, q \in Queries : handleAccess(id, q, "Execute")
    \/ Running /\ \E id \in RecIds, q \in Queries :
                     q.verb = "SELECT" /\ handleAccess(id, q, "Query")
    \/ Running /\ \E c \in CallIds : Statement(c, FALSE)
    \/ Running /\ \E id \in RecIds : PromoteToCloserStage(id, "none")
    \/ Running /\ \E id \in RecIds : SyncToUpperStages(id, {})
    \/ Running /\ \E id \in RecIds : TimePasses(id)
    \/ MonitorAndDemoteDatabases
    \/ Running /\ \E id \in RecIds : demoteToFartherStage(id, {}, "none")

SpecDemotion ==
    /\ InitDemotion
    /\ [][NextDemotion]_vars
    /\ WF_vars(SetupStageMonitor)
    /\ WF_vars(MonitorAndDemoteDatabases)
    /\ WF_vars(Running /\ \E id \in RecIds : demoteToFartherStage(id, {}, "none"))
    /\ WF_vars(Running /\ \E id \in RecIds : PromoteToCloserStage(id, "none"))
    /\ WF_vars(Running /\ \E id \in RecIds : SyncToUpperStages(id, {}))
    /\ WF_vars(Running /\ \E c \in CallIds : Statement(c, FALSE))

\* one query request on a database that holds table t with a row; the
\* goroutines of the handler run whenever they can
SeqsUpTo(S, n) == UNION {[1..k -> S] : k \in 1..n}
InitQuery ==
    /\ build \in Builds
    /\ rec = [id \in RecIds |->
                IF id = 1 THEN CreateDatabaseAndInitialize("u", DefaultDatabaseCreationStage).r
                ELSE NoRecord]
    /\ dbs = <<1>>
    /\ store = [NoStore EXCEPT !["u"][DefaultDatabaseCreationStage] =
                    [exists |-> TRUE, has |-> Tables, rows |-> [t \in Tables |-> MaxRows]]]
    /\ tasks = NoTasks
    /\ calls = NoRequests
    /\ creating = NoCreates
    /\ \E queries \in SeqsUpTo(QueryTexts, MaxQueries) :
         handler = StartHandler(FindByName(dbs, rec, "u"), queries)
    /\ monitor = NoMonitor(MaxTimeout)
    /\ moving = NoMove
    /\ text = NoText
    /\ last = NoCall
    /\ IdleRVFS
    /\ IdleDisk

NextQuery ==
    \/ sendJob
    \/ closeJobs
    \/ \E w \in 1..numWorkers : workerReceive(w)
    \/ \E w \in 1..numWorkers : workerQuery(w)
    \/ \E w \in 1..numWorkers : workerExit(w)
    \/ collect
    \/ respond

SpecQuery == InitQuery /\ [][NextQuery]_vars /\ WF_vars(NextQuery)

\* requests whose steps after handleAccess run beside the goroutines that
\* hold the record's lock: a request can be past handleAccess when the
\* promotion an earlier request started takes the lock
NextRace ==
    \/ \E id \in RecIds, q \in Queries : handleAccessUpTo(id, q, "Execute", MaxCount + 1)
    \/ \E id \in RecIds, q \in Queries :
         q.verb = "SELECT" /\ handleAccessUpTo(id, q, "Query", MaxCount + 1)
    \/ \E c \in CallIds : GetConnectionString(c)
    \/ \E c \in CallIds, ioFails \in BOOLEAN : connectionExec(c, ioFails)
    \/ \E id \in RecIds, fail \in {"none", "copy"} : PromoteToCloserStage(id, fail)
    \/ \E id \in RecIds : TimePasses(id)
    \/ MonitorAndDemoteDatabases
    \/ \E id \in RecIds : demoteToFartherStage(id, {}, "none")
    \/ \E id \in RecIds : SyncToUpperStages(id, {})

SpecRace == InitStages /\ [][NextRace]_vars

\* the locks as the engine drives them, on one R-VFS handle or on the
\* Local-VFS handles of one path: a handle takes SHARED before it asks for
\* RESERVED or EXCLUSIVE, and unlocks to SHARED or NONE
NextEngine ==
    \/ \E lock \in Requested :
         /\ lock > LOCK_SHARED => f.lock >= LOCK_SHARED
         /\ Lock(lock)
    \/ \E lock \in Released : Unlock(lock)
    \/ \E h \in Handles : diskOpen(h)
    \/ \E h \in Handles, lock \in Requested :
         /\ lock > LOCK_SHARED => disk[h].lock >= LOCK_SHARED
         /\ diskLock(h, lock)
    \/ \E h \in Handles : diskLockLocked(h)
    \/ \E h \in Handles : diskSpin(h)
    \/ \E h \in Handles, lock \in Released : diskUnlock(h, lock)
    \/ \E h \in Handles : diskUnlockLocked(h)
    \/ \E h \in Handles : diskClose(h)
    \/ \E h \in Handles : diskCleanup(h)

SpecEngine == InitLock /\ [][NextEngine]_vars

\* one handle alone on its file, an r2File in one run and a diskFile on a
\* path opened for the first time in another, with Lock and Unlock called
\* in any order and at any level; alone, a diskFile never waits in Lock
NextAlone ==
    \/ \E lock \in LockLevel : Lock(lock)
    \/ \E lock \in LockLevel : Unlock(lock)
    \/ CheckReservedLock
    \/ diskOpen(1)
    \/ \E lock \in LockLevel : diskLock(1, lock)
    \/ diskLockLocked(1)
    \/ \E lock \in LockLevel : diskUnlock(1, lock)
    \/ diskUnlockLocked(1)
    \/ diskCheckReservedLock(1)

SpecAlone == InitLock /\ [][NextAlone]_vars

\* the same calls, where a Lock that has read the path's lock state goes on
\* to take its mutex, and a wait for EXCLUSIVE comes to its end
SpecRetry ==
    /\ InitLock
    /\ [][NextEngine]_vars
    /\ \A h \in Handles : WF_vars(diskLockLocked(h)) /\ WF_vars(diskSpin(h))

-----------------------------------------------------------------------------
(* Claims about the R-VFS handle.                                          *)

\* C1: after a Sync of a writable handle that returns success, the object is
\* as long as the handle's size and holds, byte for byte, what the handle
\* showed when the Sync began.
C1_SyncPublishesView ==
    (last.op = "Sync" /\ last.ret = "OK" /\ ~f.readOnly)
        => ObjBytes(obj) = last.view

\* C2: a Sync whose PUT fails returns IOERR_FSYNC and leaves in the dirty set,
\* with their dirty flag, the sectors that were dirty before the call; a Sync
\* whose PUT succeeds leaves the dirty set empty.
C2_DirtySetKeptOnFailedPut ==
    last.op = "Sync" =>
        /\ last.put = "ok" => f.dirtySectors = EmptyMap
        /\ last.put = "failed" =>
              /\ last.ret = "IOERR_FSYNC"
              /\ last.dirtyBefore \subseteq DOMAIN f.dirtySectors
              /\ \A k \in last.dirtyBefore \cap DOMAIN f.cache : f.cache[k].dirty

\* C3: after WriteAt(buf, off) succeeds, and whatever reads and writes to
\* other sectors follow it, evictions included, ReadAt of len(buf) bytes at
\* off returns buf, whichever range read the network would fail.
C3_ReadAfterWrite ==
    tracked.on =>
        \A failAt \in SUBSET Sectors :
            LET r == r2ReadAt(f, obj, tracked.off, Len(tracked.buf), failAt)
            IN r.err = "OK" /\ r.data = tracked.buf

\* a write followed by a read and by an eviction, still readable
C3_Witness ==
    /\ tracked.on /\ tracked.evicted /\ tracked.read
    /\ \E k \in DOMAIN f.cache : f.cache[k].dirty

\* C4: whatever Lock and Unlock calls are made on an R-VFS handle or on
\* Local-VFS handles of one path, a Lock call never lowers the handle's lock
\* level, an Unlock call never raises it, and shared_count (of the R-VFS
\* handle, of the Local-VFS path) is never negative.
C4_LockMonotoneSharedNonNegative ==
    /\ [][/\ (\E lock \in LockLevel : Lock(lock)) => f'.lock >= f.lock
          /\ (\E lock \in LockLevel : Unlock(lock)) => f'.lock <= f.lock
          /\ \A h \in Handles :
                /\ disk[h].pc \in {"lock", "spin"} => disk'[h].lock >= disk[h].lock
                /\ disk[h].pc = "unlock" => disk'[h].lock <= disk[h].lock]_vars
    /\ [](f.shared >= 0 /\ (fileLocks # NoEntry => lockStates[At(fileLocks)].shared >= 0))

-----------------------------------------------------------------------------
(* Claims about the stage manager and the registry.                        *)

\* the path convention of a stage
PathConvention(stage, name) ==
    CASE stage = MemoryStage -> MemoryPath(name)
      [] stage = LocalStage -> LocalPath(name)
      [] OTHER -> RemotePath(name)

C6_SyncCopiesExactly ==
    (last.op = "SyncToUpperStages" /\ last.ret = "OK") =>
        LET r == rec[last.id] IN
        \A s \in AllStages :
            (s > r.stage /\ s <= PersistenceStage) =>
                Content(store[r.name][s]) = Content(store[r.name][r.stage])

\* C7: after Delete returns, the database's file is gone from every stage
\* from the record's stage up to the persistence stage, the record's stage
\* included, and the record is not in the registry.
C7_DeleteRemovesEveryStage ==
    last.op = "Delete" =>
        /\ last.id \notin Range(dbs)
        /\ \A s \in AllStages :
              (last.before.stage <= s /\ s <= PersistenceStage) =>
                  ~store[last.before.name][s].exists

\* C8: in every state of the registry, from the listing of the remote stage
\* on and through concurrent create requests, no two records of the registry
\* have the same name, and a create request for a name the registry holds is
\* answered Conflict and leaves the registry as it was.
C8_NamesUnique ==
    /\ \A i, j \in 1..Len(dbs) : rec[dbs[i]].name = rec[dbs[j]].name => i = j
    /\ (last.op = "Create" /\ last.ret # "pending" /\ last.existed) =>
           /\ last.ret = "Conflict"
           /\ dbs = last.items

-----------------------------------------------------------------------------
(* Claims about the database-query handler.                                *)

\* C9: a query request with n statements ends, whatever the order its
\* workers run in, with n result slots, slot i holding the outcome of
\* statement i (the data, or the error) whatever the other statements did.
C9_SlotPerStatement ==
    /\ [](handler.pc = "done" =>
            /\ Len(handler.results) = Len(handler.queries)
            /\ \A k \in 1..Len(handler.queries) :
                  handler.results[k] =
                      QueryOutcome(store["u"][rec[handler.id].stage], handler.queries[k]))
    /\ <>(handler.pc = "done")

\* a request answered with a failed and a successful statement whose
\* responses came back in another order than the statements were sent
C9_Witness ==
    /\ handler.pc = "done"
    /\ \E k \in 1..Len(handler.results) : handler.results[k].success
    /\ \E k \in 1..Len(handler.results) : ~handler.results[k].success
    /\ \E a, b \in 1..Len(handler.arrived) : a < b /\ handler.arrived[a] > handler.arrived[b]

-----------------------------------------------------------------------------
(* Claims about promotion.                                                 *)

\* the stage next closer than a stage, as PromoteToCloserStage computes it
PromotionTarget(stage) ==
    IF build = "newer" THEN GetNextCloserStage(build, stage)
    ELSE IF stage > 1 THEN stage - 1 ELSE 0

Idle(id) == id \in Range(dbs) /\ rec[id].cold /\ rec[id].stage < GetFarthestStage(build)
C11_IdleDemotedToFarthest ==
    /\ <>(monitor.state = "ticking")
    /\ \A id \in RecIds :
         Idle(id) ~> (rec[id].stage = GetFarthestStage(build) \/ ~rec[id].cold)

\* C12: a run of demoteToFartherStage changes the record's stage only if,
\* when it holds the record's lock, the time since the last access has
\* reached the timeout; when a handleAccess has completed within the
\* timeout the run gives up and leaves the record (stage, path, request
\* count) as it was and copies nothing
DemotionRuns(id) == tasks'[id]["demote"] < tasks[id]["demote"]
C12_DemotionRechecksAccess ==
    [][\A id \in RecIds :
         /\ DemotionRuns(id) /\ ~rec[id].cold => rec' = rec /\ store' = store
         /\ rec'[id].stage > rec[id].stage => DemotionRuns(id) /\ rec[id].cold]_vars
\* a demotion started by the monitor has run after an access and given up
C12_Witness ==
    /\ last.op = "demoteToFartherStage"
    /\ last.id \in RecIds
    /\ ~rec[last.id].cold
    /\ rec[last.id].requestCount > 0
    /\ rec[last.id].stage < GetFarthestStage(build)

\* C13: in every reachable state, the states another thread sees while an
\* operation on the record is under way included, the database of every
\* record the registry lists exists at the record's stage
C13_ObjectAtRecordStage ==
    \A i \in 1..Len(dbs) : store[rec[dbs[i]].name][rec[dbs[i]].stage].exists

\* C14: with automatic sync enabled, every statement that writes (INSERT,
\* UPDATE, DELETE, CREATE, DROP, ALTER) and runs successfully, through
\* Query or through Execute, schedules a SyncToUpperStages task
Mutating == {"INSERT", "UPDATE", "DELETE", "CREATE", "DROP", "ALTER"}
C14_WriteSchedulesSync ==
    [][\A c \in CallIds :
         /\ AutoSyncEnabled
         /\ calls[c] # NoRequest /\ calls'[c] = NoRequest
         /\ calls[c].query.verb \in Mutating
         /\ last'.ret = "OK"
         => tasks'[calls[c].id]["sync"] = tasks[calls[c].id]["sync"] + 1]_vars

\* C15: IsWriteOperation answers true exactly when the first token of the
\* query, after leading whitespace and without regard to case, is one of
\* INSERT, UPDATE, DELETE, CREATE, DROP, ALTER, and false for every other
\* query, one whose first token only begins with such a word included
RECURSIVE FirstToken(_)
FirstToken(query) ==
    IF query = <<>> \/ Head(query) = Space THEN <<>>
    ELSE <<Head(query)>> \o FirstToken(Tail(query))
C15_FirstTokenDecides ==
    text.state = "returned" =>
        (text.write <=> FirstToken(TrimLeft(ToUpper(text.query))) \in writeOperations)

\* C16: a query or execute request that names a database the registry
\* does not list is answered 404 Not Found, runs no statement and changes
\* no record
Unanswered == last.op \in Operations /\ last.id = 0
C16_UnknownDatabaseNotFound ==
    /\ [](Unanswered => last.ret = StatusNotFound)
    /\ [][Unanswered' => rec' = rec /\ store' = store /\ calls' = calls]_vars

\* C17: ReadAt at an offset at or past size returns no byte and EOF and
\* fetches no sector; at an offset below size it returns exactly
\* min(len(buf), size - off) bytes, none of them from an offset at or past
\* size
C17_ReadStopsAtSize ==
    last.op = "ReadAt" =>
        IF last.off >= last.size
        THEN last.data = <<>> /\ last.ret = "EOF" /\ ~last.fetched
        ELSE Len(last.data) = Min(last.n, last.size - last.off)

\* C18: Truncate(n) sets size to n and drops every cached sector with
\* index at or above ceil(n / S); when n is not a multiple of S the final
\* sector ends up with zero bytes from n mod S on, marked dirty and in the
\* dirty set, whether it was in the cache before the call or not
C18_TruncateZeroesTail ==
    [][last'.op = "Truncate" /\ last'.ret = "OK" =>
         LET n == last'.n
             lastSectorNum == n \div remoteSectorSize
             offset == n % remoteSectorSize
         IN /\ f'.size = n
            /\ DOMAIN f'.cache =
                 {k \in DOMAIN f.cache : k * remoteSectorSize < n}
            /\ offset # 0 =>
                 /\ lastSectorNum \in DOMAIN f'.cache
                 /\ f'.cache[lastSectorNum].dirty
                 /\ \A i \in (offset + 1)..remoteSectorSize :
                      f'.cache[lastSectorNum].data[i] = 0
                 /\ lastSectorNum \in DOMAIN f'.dirtySectors]_vars

\* C19: when the copy between stages of a promotion fails, at whichever
\* step, the database at the target stage is what it was before the call
\* (a copy that was there is still there), the source is unchanged and the
\* record's stage has not moved
C19_FailedCopyLeavesTarget ==
    [][/\ last'.op = "MoveToStage"
       /\ last'.ret = "error"
       /\ last'.target < last'.before.stage
       => /\ store' = store
          /\ rec'[last'.id].stage = rec[last'.id].stage]_vars

\* C20: on a miss of the sector cache with the cache at capacity exactly
\* one sector is evicted, the least recently used of the sectors whose
\* dirty flag is clear, and no dirty sector leaves; when every cached
\* sector is dirty none is evicted, the fetch still succeeds and the cache
\* has one entry more
Pos(order, k) == CHOOSE i \in 1..Len(order) : order[i] = k
MissAtCapacity ==
    /\ last.op = "getSector"
    /\ last.sectorNum \notin DOMAIN last.before.cache
    /\ Cardinality(DOMAIN last.before.cache) >= maxCachedSectors
C20_EvictsOldestClean ==
    MissAtCapacity =>
        LET b == last.before
            clean == {j \in DOMAIN b.cache : ~b.cache[j].dirty}
            gone == DOMAIN b.cache \ DOMAIN f.cache
        IN /\ \A j \in DOMAIN b.cache \ clean :
                 j \in DOMAIN f.cache /\ f.cache[j] = b.cache[j]
           /\ IF clean = {}
              THEN /\ gone = {}
                   /\ ~last.fails =>
                        /\ last.ok
                        /\ DOMAIN f.cache = DOMAIN b.cache \cup {last.sectorNum}
              ELSE \E j \in clean :
                     /\ gone = {j}
                     /\ \A i \in clean : Pos(b.lru, j) <= Pos(b.lru, i)
\* a miss at capacity has evicted the older of two clean sectors and left
\* a dirty sector that was used before both
C20_Witness ==
    /\ MissAtCapacity
    /\ \E d, j, i \in DOMAIN last.before.cache :
         /\ last.before.cache[d].dirty
         /\ ~last.before.cache[j].dirty /\ ~last.before.cache[i].dirty /\ i # j
         /\ Pos(last.before.lru, d) < Pos(last.before.lru, j)
         /\ j \notin DOMAIN f.cache

-----------------------------------------------------------------------------
(* Claims about the locks, the handle's calls and the stage manager's      *)
(* goroutines.                                                             *)

\* C21: on the Local VFS, with every handle taking SHARED before it asks
\* for RESERVED or EXCLUSIVE, and whatever the interleaving of Open, Lock,
\* Unlock and Close on one path (an EXCLUSIVE that came back BUSY given up
\* by an Unlock included), no handle is at EXCLUSIVE while another is at
\* SHARED or above, and at most one handle is at RESERVED or above
C21_LocalMutualExclusion ==
    /\ \A a, b \in Handles :
         (a # b /\ disk[a].lock = LOCK_EXCLUSIVE) => disk[b].lock < LOCK_SHARED
    /\ Cardinality({h \in Handles : disk[h].lock >= LOCK_RESERVED}) <= 1

\* C22: when Execute returns success for a statement that writes, what the
\* statement left is in the file of the stage the record points to, so
\* that a Query that starts after the return sees it, promotions and
\* demotions running beside the Execute included
C22_WriteVisibleAfterExecute ==
    (last.op = "Execute" /\ last.ret = "OK" /\ IsWriteOperation(last.query)) =>
        Content(store[rec[last.id].name][rec[last.id].stage]) = last.written

\* C23: after any WriteAt, Truncate and Sync calls on a handle, every
\* index in the dirty set is below ceil(size / S) and names a sector the
\* cache still holds, so the overlay loop of Sync never starts past size
\* and never slices the writeback buffer out of range
C23_DirtySetInRange ==
    /\ \A k \in DOMAIN f.dirtySectors :
         /\ k * remoteSectorSize < f.size
         /\ k \in DOMAIN f.cache
         /\ f.dirtySectors[k].alias
    /\ f.status # "panicked"

\* C24: the sectors that hold bytes a WriteAt wrote, and that no successful
\* PUT has stored in the object since, stay in the cache with their dirty
\* flag set, and a ReadAt of those bytes returns what was written, whatever
\* Syncs (failed or not) and cache misses came in between
C24_UnstoredWriteKept ==
    tracked.on =>
        /\ \A k \in Covers(tracked.off, Len(tracked.buf)) :
              k \in DOMAIN f.cache /\ f.cache[k].dirty
        /\ \A failAt \in SUBSET Sectors :
              r2ReadAt(f, obj, tracked.off, Len(tracked.buf), failAt).data = tracked.buf

\* the lock state of the path as handle h finds it, and as the step leaves it
PathLocks(h) == lockStates[At(disk[h].ref)]
PathLocksAfter(h) == lockStates'[At(disk[h].ref)]

\* handle h, at the given point of a call, takes its step on the path's
\* current entry of fileLocks
Acts(h, pc) ==
    /\ disk[h].pc = pc
    /\ disk'[h] # disk[h]
    /\ disk[h].ref = fileLocks

\* what the state machine promises for a call that asks an r2File for more
\* than it holds, or to give up some of what it holds
HandleRule ==
    /\ (Lock(LOCK_SHARED) /\ f.lock < LOCK_SHARED) =>
          IF f.pending THEN last'.ret = "BUSY" /\ f' = f
          ELSE last'.ret = "OK" /\ f'.shared = f.shared + 1
    /\ (Lock(LOCK_RESERVED) /\ f.lock < LOCK_RESERVED /\ ~f.readOnly) =>
          IF f.reserved THEN last'.ret = "BUSY" /\ f' = f
          ELSE last'.ret = "OK" /\ f'.reserved
    /\ (Lock(LOCK_EXCLUSIVE) /\ f.lock < LOCK_EXCLUSIVE /\ ~f.readOnly) =>
          /\ f'.pending
          /\ IF f.shared <= 1 THEN last'.ret = "OK" /\ f'.lock = LOCK_EXCLUSIVE
             ELSE last'.ret = "BUSY" /\ f'.lock = LOCK_PENDING
    /\ \A lock \in Released : (Unlock(lock) /\ f.lock > lock) =>
          /\ f.lock >= LOCK_RESERVED => ~f'.reserved
          /\ f.lock >= LOCK_PENDING => ~f'.pending
          /\ f'.shared = f.shared - (IF lock = LOCK_NONE THEN 1 ELSE 0)

\* the same for diskFile h and the lock state of its path
PathRule(h) ==
    /\ (Acts(h, "lock") /\ disk[h].req = LOCK_SHARED) =>
          IF PathLocks(h).pending
          THEN /\ last'.ret = "BUSY"
               /\ PathLocksAfter(h) = PathLocks(h)
               /\ disk'[h].lock = disk[h].lock
          ELSE /\ last'.ret = "OK"
               /\ PathLocksAfter(h).shared = PathLocks(h).shared + 1
    /\ (Acts(h, "lock") /\ disk[h].req = LOCK_RESERVED) =>
          IF PathLocks(h).reserved
          THEN /\ last'.ret = "BUSY"
               /\ PathLocksAfter(h) = PathLocks(h)
               /\ disk'[h].lock = disk[h].lock
          ELSE /\ last'.ret = "OK"
               /\ PathLocksAfter(h).reserved
    /\ (Acts(h, "lock") /\ disk[h].req = LOCK_EXCLUSIVE) =>
          /\ PathLocksAfter(h).pending
          /\ IF PathLocks(h).shared <= 1
             THEN last'.ret = "OK" /\ disk'[h].lock = LOCK_EXCLUSIVE
             ELSE disk'[h].pc = "spin" /\ disk'[h].lock = LOCK_PENDING
    /\ Acts(h, "spin") =>
          IF PathLocks(h).shared <= 1
          THEN last'.ret = "OK" /\ disk'[h].lock = LOCK_EXCLUSIVE
          ELSE /\ last'.ret = "BUSY"
               /\ disk'[h].lock = LOCK_PENDING
               /\ PathLocksAfter(h).pending
    /\ Acts(h, "unlock") =>
          /\ disk[h].lock >= LOCK_RESERVED => ~PathLocksAfter(h).reserved
          /\ disk[h].lock >= LOCK_PENDING => ~PathLocksAfter(h).pending
          /\ PathLocksAfter(h).shared =
                PathLocks(h).shared - (IF disk[h].req = LOCK_NONE THEN 1 ELSE 0)

\* C25: on an R-VFS handle and on a Local-VFS path, Lock(SHARED) returns
\* BUSY and changes no lock state when the pending flag is set and adds one
\* to the shared count otherwise; Lock(RESERVED) returns BUSY and changes
\* nothing when the reserved flag is set and sets it otherwise;
\* Lock(EXCLUSIVE) sets the pending flag, reaches EXCLUSIVE when the shared
\* count is at most 1 and otherwise returns BUSY with the handle at PENDING
\* and the pending flag set; an Unlock from RESERVED or above clears the
\* reserved flag, from PENDING or above the pending flag, and Unlock(NONE)
\* takes exactly one from the shared count
C25_LockStateMachine ==
    [][HandleRule /\ \A h \in Handles : PathRule(h)]_vars

\* C26: when Close has returned on an R-VFS handle, whatever its Sync
\* returned, the handle's lock level is NONE, its pending and reserved
\* flags are clear and its shared count is back to zero
C26_CloseReleasesLock ==
    (last.op = "Close" /\ f.status = "closed") =>
        /\ f.lock = LOCK_NONE
        /\ ~f.pending
        /\ ~f.reserved
        /\ f.shared = 0

\* the sectors a WriteAt wrote into before it returned
Touched(call) == IF call.n = 0 THEN {} ELSE Covers(call.off, call.n)

\* C27: a WriteAt on a writable handle leaves the object as it was; every
\* sector it wrote into is in the cache, dirty and in the dirty set; the
\* bytes of those sectors outside the written window show what they showed
\* before; and when it returns nil size is max(size, off + len(buf)). On a
\* read-only handle WriteAt and Truncate return an error and leave size,
\* the sector cache and the dirty set as they were.
C27_WriteAtFrame ==
    [][/\ last'.op = "WriteAt" =>
            /\ obj' = obj
            /\ IF f.readOnly
               THEN /\ last'.ret # "OK"
                    /\ f'.size = f.size
                    /\ f'.cache = f.cache
                    /\ f'.dirtySectors = f.dirtySectors
               ELSE /\ \A k \in Touched(last') :
                         /\ k \in DOMAIN f'.cache
                         /\ f'.cache[k].dirty
                         /\ k \in DOMAIN f'.dirtySectors
                    /\ \A i \in 1..f.size :
                         (/\ (i - 1) \div remoteSectorSize \in Touched(last')
                          /\ i \notin (last'.off + 1)..(last'.off + last'.n))
                            => View(f', obj')[i] = View(f, obj)[i]
                    /\ last'.ret = "OK" =>
                         f'.size = Max(f.size, last'.off + Len(last'.buf))
       /\ (last'.op = "Truncate" /\ f.readOnly) =>
            /\ last'.ret # "OK"
            /\ obj' = obj
            /\ f'.size = f.size
            /\ f'.cache = f.cache
            /\ f'.dirtySectors = f.dirtySectors]_vars

\* C28: an Open whose flags hold no file-class bit returns CANTOPEN, and so
\* does an Open without CREATE on a key that holds no object; a handle
\* opened on an existing object has the object's length as its size, and a
\* new handle's size is 0 only for an empty object or for a key that holds
\* nothing, opened with CREATE; every new handle has an empty sector
\* cache, an empty dirty set and lock level NONE
C28_OpenOutcome ==
    last.op = "Open" =>
        /\ ~last.typed => last.ret = "CANTOPEN"
        /\ (~obj.exists /\ ~last.create) => last.ret = "CANTOPEN"
        /\ last.ret = "OK" =>
              /\ f.status = "open"
              /\ obj.exists => f.size = Len(obj.data)
              /\ f.size = 0 => \/ obj.exists /\ Len(obj.data) = 0
                               \/ ~obj.exists /\ last.create
              /\ f.cache = EmptyMap
              /\ f.dirtySectors = EmptyMap
              /\ f.lock = LOCK_NONE

\* the goroutine of a promotion of record id runs in this step
Promotes(id) == tasks'[id]["promote"] = tasks[id]["promote"] - 1

\* C29: a PromoteToCloserStage on a record at the closest stage leaves its
\* stage, its path and its request count as they were and copies nothing;
\* on any other record the stage it moves to is the next closer stage of
\* the list, and when the probe of the source (open and ping) fails the
\* record's stage and path stay as they were and no file is copied
C29_PromotionTarget ==
    [][\A id \in RecIds :
         /\ (Promotes(id) /\ IsClosestStage(build, rec[id].stage)) =>
               /\ rec'[id] = rec[id]
               /\ store' = store
         /\ (Promotes(id) /\ last'.op = "MoveToStage") =>
               /\ last'.target \in Stages(build)
               /\ last'.target < rec[id].stage
               /\ \A s \in Stages(build) : ~(last'.target < s /\ s < rec[id].stage)
               /\ rec'[id].stage \in {rec[id].stage, last'.target}
         /\ (build = "newer" /\ PromoteToCloserStage(id, "probe")) =>
               /\ rec'[id].stage = rec[id].stage
               /\ rec'[id].path = rec[id].path
               /\ store' = store]_vars

\* a promotion of a record that is not at the closest stage has ended with
\* no move started: the probe of its source failed
C29_Witness ==
    /\ build = "newer"
    /\ last.op = "PromoteToCloserStage"
    /\ ~IsClosestStage(build, rec[last.id].stage)
    /\ rec[last.id].requestCount = 0

\* the copies the sync is to make: from the record's stage to each stage of
\* the list above it, in increasing order, up to the persistence stage p,
\* and out at the first copy that fails
RECURSIVE copiesUpTo(_, _, _, _, _, _)
copiesUpTo(b, r, files, stage, p, failAt) ==
    IF stage = 0 \/ stage > p THEN files
    ELSE LET c == copyDataBetweenStages(b, files, r.stage, stage,
                                        IF stage \in failAt THEN "copy" ELSE "none")
         IN IF c.err # "OK" THEN c.files
            ELSE copiesUpTo(b, r, c.files, GetNextFartherStage(b, stage), p, failAt)

\* the values of PERSISTENCE_STAGE that name a stage of the build's list
PersistenceSettings == Stages(build)

\* what a SyncToUpperStages on record id is to do when the persistence
\* stage is p
SyncRule(id, failAt, enabled, p) ==
    LET r == rec[id] IN
    /\ rec'[id].stage = r.stage
    /\ rec'[id].path = r.path
    /\ rec'[id].requestCount = r.requestCount
    /\ store'[r.name] =
          IF enabled
          THEN copiesUpTo(build, r, store[r.name],
                          GetNextFartherStage(build, r.stage), p, failAt)
          ELSE store[r.name]

\* C30: with auto-sync enabled SyncToUpperStages copies the database from
\* the record's stage to each stage above it up to the persistence stage,
\* in increasing order, stops at the first copy that fails and writes no
\* stage above the persistence stage; it leaves the record's stage, path
\* and request count as they were; with auto-sync disabled it changes
\* nothing
C30_SyncUpToPersistence ==
    [][\A id \in RecIds, failAt \in FailAt, enabled \in BOOLEAN :
         syncToUpperStagesCall(id, failAt, enabled) =>
             \A p \in PersistenceSettings : SyncRule(id, failAt, enabled, p)]_vars

-----------------------------------------------------------------------------
(* Claims about the record's mutex, the request count, the lock state of   *)
(* a path and the stages of a record.                                      *)

\* a step writes the stage, the path, the request count or the time of the
\* last access of record id
Writes(id) ==
    \/ rec'[id].stage # rec[id].stage
    \/ rec'[id].path # rec[id].path
    \/ rec'[id].requestCount # rec[id].requestCount
    \/ rec[id].cold /\ ~rec'[id].cold

\* C31: for one record, no two of PromoteToCloserStage,
\* demoteToFartherStage, SyncToUpperStages, Delete and handleAccess are
\* inside their locked region at the same time; every write of the
\* record's stage, path, last access or request count is made by a holder
\* of the mutex; and every function that holds the mutex releases it
C31_RecordMutex ==
    /\ [](Cardinality(moving.inside) <= 1)
    /\ [][\A id \in RecIds : Writes(id) => moving.id = id /\ moving.inside # {}]_vars
    /\ \A kind \in Sections : (kind \in moving.inside) ~> (kind \notin moving.inside)

\* a promotion holds the mutex of a record it has just moved, with a
\* request for the record waiting
C31_Witness ==
    /\ Holds(1, "promote")
    /\ last.op = "MoveToStage" /\ last.ret = "OK"
    /\ rec[1].stage # DefaultDatabaseCreationStage

C33_LockStateKept ==
    /\ []((\E h \in Handles : disk[h].open) => fileLocks # NoEntry)
    /\ [][(/\ \E h \in Handles : disk[h].open
           /\ last'.op \in {"Lock", "Unlock"}
           /\ last'.ret = "IOERR_LOCK")
          => fileLocks # NoEntry]_vars

\* C34: a promotion moves the record a stage closer only if the request
\* count is still at or above the threshold when it runs under the
\* record's mutex, so the promotions started by one burst of requests move
\* the record by one stage at most
C34_PromotionRechecksCount ==
    [][\A id \in RecIds :
         (last'.op = "MoveToStage" /\ last'.id = id /\ rec'[id].stage < rec[id].stage)
           => rec[id].requestCount >= RequestCountThreshold]_vars

\* C35: of two R-VFS handles on the same key at most one holds RESERVED or
\* higher, and none holds EXCLUSIVE while the other holds SHARED or higher
C35_KeyExclusion ==
    (f.status = "open" /\ peer.status = "open") =>
        /\ ~(f.lock >= LOCK_RESERVED /\ peer.lock >= LOCK_RESERVED)
        /\ ~(f.lock = LOCK_EXCLUSIVE /\ peer.lock >= LOCK_SHARED)
        /\ ~(peer.lock = LOCK_EXCLUSIVE /\ f.lock >= LOCK_SHARED)

\* handle h is in a Lock(EXCLUSIVE) that has read the path's lock state
Retrying(h) == disk[h].pc = "lock" /\ disk[h].req = LOCK_EXCLUSIVE

\* C36: on the Local VFS, while a handle is at PENDING no other handle newly
\* acquires SHARED; and a handle that keeps retrying Lock(EXCLUSIVE) gets
\* EXCLUSIVE once the other handles have given up their SHARED locks
C36_WriterNotStarved ==
    /\ [][\A h \in Handles :
            (disk[h].lock < LOCK_SHARED /\ disk'[h].lock = LOCK_SHARED)
              => ~\E o \in Handles \ {h} : disk[o].open /\ disk[o].lock = LOCK_PENDING]_vars
    /\ \A h \in Handles :
         (/\ <>[](\A o \in Handles \ {h} : disk[o].lock < LOCK_SHARED)
          /\ []<>Retrying(h))
           => <>(disk[h].lock = LOCK_EXCLUSIVE)

\* the stages Delete's loop visits, from the persistence stage down, as
\* for stage := from; stage >= low; stage-- visits them on unsigned indexes
RECURSIVE LoopStages(_, _, _)
LoopStages(from, low, fuel) ==
    IF from < low THEN <<>>
    ELSE IF fuel = 0 THEN <<0>>
    ELSE <<from>> \o LoopStages(Dec(from), low, fuel - 1)

\* from, from - 1, ..., low
Descending(from, low) ==
    [i \in 1..(IF from >= low THEN from - low + 1 ELSE 0) |-> from - i + 1]

\* the files of record r after a Delete whose removals fail at failAt, with
\* the persistence stage p
AfterRemovals(r, files, p, failAt) ==
    [s \in AllStages |->
        IF r.stage <= s /\ s <= p
        THEN RemoveFromStage(build, r, files, s, s \in failAt).files[s]
        ELSE files[s]]

\* C37: for every record stage and every persistence stage of the valid
\* range Delete's loop ends after visiting the stages from the persistence
\* stage down to the record's, without wrapping; with the persistence
\* stage below the record's nothing is removed; a removal that fails
\* neither ends the loop nor keeps the record in the list
C37_DeleteLoopEnds ==
    /\ [](\A id \in Range(dbs), p \in AllStages :
            LET r == rec[id] IN
            /\ LoopStages(p, r.stage, MaxLoop) = Descending(p, r.stage)
            /\ \A failAt \in FailAt :
                 removeDown(build, r, store[r.name], p, failAt)
                   = AfterRemovals(r, store[r.name], p, failAt)
            /\ p < r.stage =>
                 \A failAt \in FailAt :
                    removeDown(build, r, store[r.name], p, failAt) = store[r.name])
    /\ [][last'.op = "Delete" =>
            LET r == last'.before IN
            /\ last'.id \notin Range(dbs')
            /\ \E failAt \in FailAt :
                 store'[r.name] = AfterRemovals(r, store[r.name], PersistenceStage, failAt)
            /\ \A n \in Names \ {r.name} : store'[n] = store[n]]_vars

\* a Delete of a record at the local stage whose removal at the remote
\* stage failed: the remote file is still there and the record is unlisted
C37_Witness ==
    /\ last.op = "Delete"
    /\ last.before.stage = LocalStage
    /\ store[last.before.name][RemoteStage].exists
    /\ last.id \notin Range(dbs)

\* the stage indexes RemoveFromStage is handed, in the range and around it
StageIndexes == 0..(RemoteStage + 1)

\* C38: RemoveFromStage on the record's own stage, or on a stage outside
\* the removable range, returns an error and deletes nothing; on any other
\* stage it deletes the record's file at that stage and no other
C38_RemoveFromStageScope ==
    \A id \in Range(dbs), s \in StageIndexes :
        LET r == rec[id]
            files == store[r.name]
            x == RemoveFromStage(build, r, files, s, FALSE)
            removable == IF build = "newer" THEN IsRemovableStage(build, s)
                         ELSE s \in 1..3
        IN IF s = r.stage \/ ~removable
           THEN x.err = "error" /\ x.files = files
           ELSE /\ x.err = "OK"
                /\ ~x.files[s].exists
                /\ \A t \in AllStages \ {s} : x.files[t] = files[t]

\* C39: for every record the registry lists, GetConnectionString names the
\* file that GetConnectionStringForStage names for the record's stage, and
\* the record's path is the path the convention gives for its stage
C39_PathOfStage ==
    \A id \in Range(dbs) :
        LET r == rec[id] IN
        /\ ConnectionString(r)
             = GetConnectionStringForStage(build, r, r.stage, LocalDirectoryPath)
        /\ r.path = PathConvention(r.stage, r.name)

\* the fields a diskFile has in common with an r2File
LockFields(d) ==
    [readOnly |-> d.readOnly, lock |-> d.lock, shared |-> d.shared,
     pending |-> d.pending, reserved |-> d.reserved]

\* a call on the diskFile returns in this step what the r2File's function
\* returns from the same fields, and leaves the same fields
Same(d, after, r) ==
    /\ LockFields(after) = LockFields(r.h)
    /\ last'.ret = r.ret

\* C40: a diskFile alone on its path and an r2File return the same results
\* and go through the same levels, shared counts and flags for the same
\* sequence of Lock, Unlock and CheckReservedLock calls, and the path's
\* lock state holds what the handle holds
C40_SameLocksAlone ==
    [][LET d == disk[1]
           after == disk'[1]
       IN /\ \A lock \in LockLevel :
               (diskLock(1, lock) /\ after.pc = "idle")
                 => Same(d, after, r2Lock(LockFields(d), lock))
          /\ diskLockLocked(1)
               => /\ after.pc = "idle"
                  /\ Same(d, after, r2Lock(LockFields(d), d.req))
          /\ \A lock \in LockLevel :
               (diskUnlock(1, lock) /\ after.pc = "idle")
                 => Same(d, after, [h |-> r2Unlock(LockFields(d), lock), ret |-> "OK"])
          /\ diskUnlockLocked(1)
               => Same(d, after, [h |-> r2Unlock(LockFields(d), d.req), ret |-> "OK"])
          /\ diskCheckReservedLock(1)
               => last'.ret = Answer(r2CheckReservedLock(LockFields(d)))
          /\ (after.open /\ after.pc = "idle") =>
               /\ fileLocks' # NoEntry
               /\ lockStates'[At(fileLocks')] =
                    [shared |-> after.shared, pending |-> after.pending,
                     reserved |-> after.reserved]
      ]_vars

\* the diskFile alone on its path has been granted EXCLUSIVE
C40_Witness ==
    /\ disk[1].open /\ ~disk[2].open
    /\ disk[1].lock = LOCK_EXCLUSIVE /\ disk[1].shared = 1
    /\ last = LockCall("Lock", "OK")

====
